---------------------------- MODULE Spec2Model ----------------------------
(***************************************************************************)
(* Verification model of the DataOrcid synchronisation engine:             *)
(*   - safe_get                      (app/services/orcid_service.py)       *)
(*   - get_client_credentials_token  (app/services/orcid_service.py)       *)
(*   - list_orcids_for_institution   (app/services/orcid_service.py)       *)
(*   - _extract_status_from_profile  (app/services/cache_service.py)       *)
(*   - build_works_cache_for_ror, build_fundings_cache_for_ror,            *)
(*     _flush_bulk                   (app/services/cache_service.py)       *)
(*   - rebuild_cache, _log_run_web   (app/blueprints/cache_control.py)     *)
(*   - cache_full_build, cache_fundings_build (app/blueprints/works.py)    *)
(*   - build_researcher_names_cache  (app/services/cache_service.py)       *)
(*   - fetch_single_profile, get_all_profiles_concurrently                 *)
(*                                   (app/services/orcid_service.py)       *)
(*   - ensure_and_heal_grid_for_ror  (app/services/cache_service.py)       *)
(*   - fetch_grid_from_ror           (app/services/ror_service.py)         *)
(* Each component has its own specification (SpecGet, SpecToken,           *)
(* SpecSearch and SpecSearchLive, SpecClassify, SpecIncomplete,            *)
(* SpecRecord, SpecBuild, SpecNames, SpecFetch, SpecDiscover, SpecBatch,   *)
(* SpecHeal) over one set of variables; a specification leaves the         *)
(* variables of the other components at their rest values.                 *)
(***************************************************************************)
EXTENDS Integers, Sequences, FiniteSets, Bags, TLC

VARIABLES
    \* ---- safe_get ----
    sg_pc,        \* "idle" | "loop" | "done"
    sg_retries,   \* the retries argument of the call
    sg_attempt,   \* loop variable `attempt`
    sg_script,    \* what the upstream answers to the 1st, 2nd, ... request
    sg_log,       \* outcomes of the requests issued so far, in order
    sg_sleeps,    \* the time.sleep calls made so far: [attempt, ms]
    sg_ret,       \* what the call returned
    \* ---- get_client_credentials_token ----
    tk_token,     \* _CACHED_TOKEN (0: None)
    tk_expiry,    \* _TOKEN_EXPIRY, seconds
    tk_lock,      \* holder of _TOKEN_LOCK (0: free)
    tk_now,       \* time.time(), seconds
    tk_config,    \* token URL, client id and secret are all configured
    tk_pc,        \* per thread: position in get_client_credentials_token
    tk_ret,       \* per thread: returned value (NotReturned, 0: None, else a token)
    tk_epoch,     \* per thread: number of token requests issued when it entered
    tk_posts,     \* the token requests issued so far: [by, outcome, lifetime]
    \* ---- list_orcids_for_institution ----
    lo_pc,        \* "idle" | "page" | "done"
    lo_args,      \* the call: [ror, grid, url]: which identifiers / URL are given
    lo_query,     \* query_parts: the clauses of the Lucene query
    lo_tokenCalls,\* calls of get_client_credentials_token made by the search
    lo_start,     \* start
    lo_unique,    \* unique_results: an insertion-ordered dict, <<[key, rec], ...>>
    lo_requests,  \* the start offsets of the page requests issued so far
    lo_seen,      \* stripped non-empty ids on the pages fetched successfully
    lo_overlap,   \* some id came again (within a page or on a later page)
    lo_ret,       \* the returned list
    lo_pages,     \* per page request issued: "full" | "short" | "failed" | "decode_error"
    lo_slot,      \* the credential cache: "none" (empty or expired) | "cached" | "refreshed"
    lo_tokenPosts,\* token requests issued on behalf of the search
    \* ---- _extract_status_from_profile ----
    cl_pc,        \* "input" | "done"
    cl_profile,   \* profile_data
    cl_trusted,   \* trusted_ids
    cl_managed,   \* is_managed_by_am of the returned ResearcherStatus
    \* ---- one record, from fetch_single_profile to the builders' loop body ----
    fp_pc,        \* "input" | "fetched" | "done"
    fp_doc,       \* the record the API serves: [key, content]
    fp_data,      \* what fetch_single_profile returned
    fp_out,       \* what the loop body made of it: [target, trusted, skipped, managed, rows]
    \* ---- storage ----
    db_works,     \* table work_cache: a bag of rows [ror, orcid, item]
    db_fundings,  \* table funding_cache: a bag of rows [ror, orcid, item]
    db_status,    \* table researcher_status: a bag of rows [ror, orcid, managed]
    db_runs,      \* tables work_cache_run / funding_cache_run, in insertion order
    \* ---- upstream registry ----
    up_pop,       \* the persons the search finds for the institution
    up_docs,      \* per person: the number of work and funding summaries of the record
    up_changed,   \* the registry changed since the last completed invocation
    \* ---- rebuild_cache / build_*_cache_for_ror ----
    rb_pc,        \* "idle" | "discover" | "purge" | "fetch" | "process" | "names"
    rb_caller,    \* the handler that invoked the builder, "none" when idle
    rb_target,    \* "works" | "fundings"
    rb_researchers, \* orcid_ids
    rb_failed,    \* the persons whose profile fetch yielded nothing
    rb_todo,      \* the entries of profiles_map not yet iterated
    rb_buffer,    \* works_buffer / funding_buffer
    rb_status_buffer, \* status_buffer
    rb_total,     \* total_works_cached / total_fundings_cached
    rb_committed, \* sum of the counts of the flushes of the entity that committed
    rb_written,   \* the rows of the entity this invocation's flushes committed
    rb_dropped,   \* the rows of the batches whose flush failed in this invocation,
                  \* and whether a later flush submitted one of them again
    rb_flushesOk, \* no flush of this run has failed
    rb_last,      \* facts of the last completed invocation
    rb_started,   \* get_all_profiles_concurrently had a member URL and a token
    rb_purged,    \* the purge of this invocation deleted rows
    db_names,     \* table researcher_cache: a bag of rows [orcid, name]
    \* ---- get_all_profiles_concurrently ----
    ga_pc,        \* "idle" | "running" | "returned"
    ga_ids,       \* orcid_ids
    ga_task,      \* per submitted id: "queued" | "running" | "done"
    ga_result,    \* per finished task: what fetch_single_profile gave
    ga_fetches,   \* per id: the number of fetches started for it
    ga_collected, \* the futures the loop over as_completed has handled
    ga_results,   \* the keys of `results`
    ga_ret,       \* the keys of the returned map, or NotReturnedYet / RaisedOut
    ga_token,     \* local `token` of the call (0: None)
    ga_cache,     \* the token the credential cache hands out at this moment
    ga_used,      \* per task: the token its request carries (0: not started)
    ga_resolved,  \* who read the configuration and asked for a token, in order
    \* ---- ensure_and_heal_grid_for_ror ----
    db_users,     \* table users: per user the ror_id and grid_id columns
    gh_pc,        \* "idle" | "returned" | "raised" | "searching"
    gh_ror,       \* the ror_id argument
    gh_ret,       \* the grid id returned
    gh_requests,  \* the requests the call sent to the ROR API, each with its answer
    gh_before,    \* db_users when the function was entered
    gh_committed, \* no commit of the last call has failed
    \* ---- build_researcher_names_cache ----
    ns_last       \* the last sync of the names: what it asked for and got

sgVars == <<sg_pc, sg_retries, sg_attempt, sg_script, sg_log, sg_sleeps, sg_ret>>

tkVars == <<tk_token, tk_expiry, tk_lock, tk_now, tk_config, tk_pc, tk_ret,
            tk_epoch, tk_posts>>

loVars == <<lo_pc, lo_args, lo_query, lo_tokenCalls, lo_start, lo_unique,
            lo_requests, lo_seen, lo_overlap, lo_ret, lo_pages, lo_slot, lo_tokenPosts>>

clVars == <<cl_pc, cl_profile, cl_trusted, cl_managed, fp_pc, fp_doc, fp_data, fp_out>>

dbVars == <<db_works, db_fundings, db_status, db_runs, db_names>>
upVars == <<up_pop, up_docs, up_changed>>
rbVars == <<rb_pc, rb_caller, rb_target, rb_researchers, rb_failed, rb_todo, rb_buffer,
            rb_status_buffer, rb_total, rb_committed, rb_written, rb_dropped,
            rb_flushesOk, rb_last, rb_started, rb_purged>>
buildVars == <<dbVars, upVars, rbVars>>
gaVars == <<ga_pc, ga_ids, ga_task, ga_result, ga_fetches, ga_collected, ga_results, ga_ret,
            ga_token, ga_cache, ga_used, ga_resolved>>

ghVars == <<db_users, gh_pc, gh_ror, gh_ret, gh_requests, gh_before, gh_committed>>

nsVars == <<ns_last>>

vars == <<sgVars, tkVars, loVars, clVars, buildVars, gaVars, ghVars, nsVars>>

(***************************************************************************)
(* safe_get: orcid_service.py lines 106-170                                *)
(***************************************************************************)

\* Largest retries argument explored (the code's default is DefaultRetries).
MaxRetries == 3

\* retries: int = 3
DefaultRetries == 3

\* requests.get raised a RequestException: there is no response object.
NetErr == 0

\* What one requests.get can produce: a network error or an HTTP status.
Outcomes == {NetErr, 200, 401, 403, 404, 429, 500}

\* sleep_duration = 2 * attempt (seconds), kept in milliseconds
RateLimitSleepMs == 2000

\* time.sleep(0.5 * attempt), kept in milliseconds
TransientSleepMs == 500

NoRet == [kind |-> "running", attempt |-> 0, status |-> 0]
NullRet == [kind |-> "null", attempt |-> 0, status |-> 0]
RespRet(k, s) == [kind |-> "response", attempt |-> k, status |-> s]

\* A mutation of SgDecide: 404 falls through to the transient-retry path.
SgDecide_Retry404(outcome, attempt, retries) ==
    IF outcome # NetErr /\ outcome = 200
      THEN [act |-> "return_response", sleep |-> 0]
    ELSE IF outcome # NetErr /\ outcome = 429
      THEN [act |-> "continue", sleep |-> RateLimitSleepMs * attempt]
    ELSE IF outcome # NetErr /\ outcome \in {401, 403}
      THEN [act |-> "return_null", sleep |-> 0]
    ELSE [act |-> "continue",
          sleep |-> IF attempt < retries THEN TransientSleepMs * attempt ELSE 0]

\* A mutation of SgDecide: 401/403 fall through to the transient-retry path.
SgDecide_RetryAuth(outcome, attempt, retries) ==
    IF outcome # NetErr /\ outcome = 200
      THEN [act |-> "return_response", sleep |-> 0]
    ELSE IF outcome # NetErr /\ outcome = 429
      THEN [act |-> "continue", sleep |-> RateLimitSleepMs * attempt]
    ELSE IF outcome # NetErr /\ outcome = 404
      THEN [act |-> "return_response", sleep |-> 0]
    ELSE [act |-> "continue",
          sleep |-> IF attempt < retries THEN TransientSleepMs * attempt ELSE 0]

\* A mutation of SgDecide: a 429 gives up instead of retrying.
SgDecide_NoRetry429(outcome, attempt, retries) ==
    IF outcome # NetErr /\ outcome = 200
      THEN [act |-> "return_response", sleep |-> 0]
    ELSE IF outcome # NetErr /\ outcome = 429
      THEN [act |-> "return_null", sleep |-> 0]
    ELSE IF outcome # NetErr /\ outcome = 404
      THEN [act |-> "return_response", sleep |-> 0]
    ELSE IF outcome # NetErr /\ outcome \in {401, 403}
      THEN [act |-> "return_null", sleep |-> 0]
    ELSE [act |-> "continue",
          sleep |-> IF attempt < retries THEN TransientSleepMs * attempt ELSE 0]

\* The body of one iteration of `for attempt in range(1, retries + 1)`:
\* what the iteration does with the outcome of its request, and how long it
\* sleeps (0: no time.sleep call).
SgDecide(outcome, attempt, retries) ==
    IF outcome # NetErr /\ outcome = 200
      THEN [act |-> "return_response", sleep |-> 0]
    ELSE IF outcome # NetErr /\ outcome = 429
      THEN [act |-> "continue", sleep |-> RateLimitSleepMs * attempt]
    ELSE IF outcome # NetErr /\ outcome = 404
      THEN [act |-> "return_response", sleep |-> 0]
    ELSE IF outcome # NetErr /\ outcome \in {401, 403}
      THEN [act |-> "return_null", sleep |-> 0]
    ELSE [act |-> "continue",
          sleep |-> IF attempt < retries THEN TransientSleepMs * attempt ELSE 0]

\* A mutation of SgLoopEnds: the loop runs one iteration too many.
SgLoopEnds_OffByOne(attempt, retries) == attempt > retries + 1

\* range(1, retries + 1) is exhausted before iteration `attempt`.
SgLoopEnds(attempt, retries) == attempt > retries

SgInit ==
    /\ sg_pc = "idle"
    /\ sg_retries = 0
    /\ sg_attempt = 0
    /\ sg_script = <<>>
    /\ sg_log = <<>>
    /\ sg_sleeps = <<>>
    /\ sg_ret = NoRet

\* safe_get(url, headers, timeout, retries): entry, up to the first request.
SgCall(retries, script) ==
    /\ sg_pc = "idle"
    /\ sg_retries' = retries
    /\ sg_script' = script
    /\ sg_attempt' = 1
    /\ sg_log' = <<>>
    /\ sg_sleeps' = <<>>
    /\ IF SgLoopEnds(1, retries)
         THEN sg_pc' = "done" /\ sg_ret' = NullRet
         ELSE sg_pc' = "loop" /\ sg_ret' = NoRet

\* One iteration: the request, the status policy, the sleep, and the loop
\* exit (return None) when this was the last iteration.
SgAttempt ==
    /\ sg_pc = "loop"
    /\ LET outcome == sg_script[sg_attempt]
           d == SgDecide(outcome, sg_attempt, sg_retries) IN
       /\ sg_log' = Append(sg_log, outcome)
       /\ sg_sleeps' = IF d.sleep > 0
                         THEN Append(sg_sleeps, [attempt |-> sg_attempt, ms |-> d.sleep])
                         ELSE sg_sleeps
       /\ CASE d.act = "return_response" ->
                 /\ sg_pc' = "done"
                 /\ sg_ret' = RespRet(sg_attempt, outcome)
                 /\ sg_attempt' = sg_attempt
            [] d.act = "return_null" ->
                 /\ sg_pc' = "done"
                 /\ sg_ret' = NullRet
                 /\ sg_attempt' = sg_attempt
            [] OTHER ->
                 /\ sg_attempt' = sg_attempt + 1
                 /\ IF SgLoopEnds(sg_attempt + 1, sg_retries)
                      THEN sg_pc' = "done" /\ sg_ret' = NullRet
                      ELSE sg_pc' = "loop" /\ sg_ret' = NoRet
    /\ UNCHANGED <<sg_retries, sg_script>>


(***************************************************************************)
(* get_client_credentials_token: orcid_service.py lines 36-103             *)
(***************************************************************************)

\* Number of threads calling get_client_credentials_token.
NThreads == 2

\* The clock advances in steps of TickSec seconds, MaxTicks times at most.
TickSec == 60
MaxTicks == 2

\* expires_in = data.get("expires_in", 6300)
DefaultLifetime == 6300

\* _TOKEN_EXPIRY = time.time() + expires_in - 60
SafetyWindow == 60

\* The response carries no expires_in field.
Omitted == -1

\* ret of a thread that has not returned.
NotReturned == -1

Threads == 1..NThreads

\* expires_in values the token endpoint may answer.
Lifetimes == {Omitted, 60, 120}

\* What the token endpoint may answer: a token (with or without expires_in),
\* a 200 without access_token, or a RequestException (HTTP error, network).
TokenAnswers ==
    [outcome : {"ok"}, lifetime : Lifetimes]
      \cup {[outcome |-> "no_token", lifetime |-> Omitted],
            [outcome |-> "error", lifetime |-> Omitted]}

\* _CACHED_TOKEN and time.time() < _TOKEN_EXPIRY
TokenValid(token, expiry, now) == token # 0 /\ now < expiry

\* A mutation of RecheckInsideLock: no second check under the lock.
RecheckInsideLock_Missing(token, expiry, now) == FALSE

\* The double check inside `with _TOKEN_LOCK`.
RecheckInsideLock(token, expiry, now) == TokenValid(token, expiry, now)

\* A mutation of ExpiryFor: no safety window.
ExpiryFor_NoWindow(now, lifetime) ==
    now + (IF lifetime = Omitted THEN DefaultLifetime ELSE lifetime)

\* time.time() + expires_in - 60, with the default lifetime when omitted
ExpiryFor(now, lifetime) ==
    now + (IF lifetime = Omitted THEN DefaultLifetime ELSE lifetime) - SafetyWindow

\* A mutation of StoredToken: the token of the answer is stored unchecked.
StoredToken_Unchecked(answer, old, new) == IF answer.outcome = "ok" THEN new ELSE 0

\* `if token: _CACHED_TOKEN = token`; a RequestException leaves the global
\* alone. old: the cached value; new: the token of the answer.
StoredToken(answer, old, new) == IF answer.outcome = "ok" THEN new ELSE old

TkInit ==
    /\ tk_token = 0
    /\ tk_expiry = 0
    /\ tk_lock = 0
    /\ tk_now = 0
    /\ tk_config \in BOOLEAN
    /\ tk_pc = [t \in Threads |-> "idle"]
    /\ tk_ret = [t \in Threads |-> NotReturned]
    /\ tk_epoch = [t \in Threads |-> NotReturned]
    /\ tk_posts = <<>>

TkRest ==
    /\ tk_token = 0
    /\ tk_expiry = 0
    /\ tk_lock = 0
    /\ tk_now = 0
    /\ tk_config = TRUE
    /\ tk_pc = [t \in Threads |-> "idle"]
    /\ tk_ret = [t \in Threads |-> NotReturned]
    /\ tk_epoch = [t \in Threads |-> NotReturned]
    /\ tk_posts = <<>>

\* Thread t enters get_client_credentials_token.
TkCall(t) ==
    /\ tk_pc[t] = "idle"
    /\ tk_pc' = [tk_pc EXCEPT ![t] = "fast_token"]
    /\ tk_epoch' = [tk_epoch EXCEPT ![t] = Len(tk_posts)]
    /\ UNCHANGED <<tk_token, tk_expiry, tk_lock, tk_now, tk_config, tk_ret, tk_posts>>

\* Fast path, first operand: `_CACHED_TOKEN and ...` (read without the lock).
TkFastReadToken(t) ==
    /\ tk_pc[t] = "fast_token"
    /\ tk_pc' = [tk_pc EXCEPT ![t] = IF tk_token # 0 THEN "fast_expiry" ELSE "lock"]
    /\ UNCHANGED <<tk_token, tk_expiry, tk_lock, tk_now, tk_config, tk_ret, tk_epoch, tk_posts>>

\* Fast path, second operand: `time.time() < _TOKEN_EXPIRY`.
TkFastReadExpiry(t) ==
    /\ tk_pc[t] = "fast_expiry"
    /\ tk_pc' = [tk_pc EXCEPT ![t] = IF tk_now < tk_expiry THEN "fast_return" ELSE "lock"]
    /\ UNCHANGED <<tk_token, tk_expiry, tk_lock, tk_now, tk_config, tk_ret, tk_epoch, tk_posts>>

\* Fast path: `return _CACHED_TOKEN` (a second read of the global).
TkFastReturn(t) ==
    /\ tk_pc[t] = "fast_return"
    /\ tk_ret' = [tk_ret EXCEPT ![t] = tk_token]
    /\ tk_pc' = [tk_pc EXCEPT ![t] = "done"]
    /\ UNCHANGED <<tk_token, tk_expiry, tk_lock, tk_now, tk_config, tk_epoch, tk_posts>>

\* Slow path: acquire the lock, check again, read the configuration and
\* issue the token request (requests.post), or return under the lock.
TkLockedCheck(t) ==
    /\ tk_pc[t] = "lock"
    /\ tk_lock = 0
    /\ IF RecheckInsideLock(tk_token, tk_expiry, tk_now)
         THEN /\ tk_ret' = [tk_ret EXCEPT ![t] = tk_token]
              /\ tk_pc' = [tk_pc EXCEPT ![t] = "done"]
              /\ UNCHANGED <<tk_lock, tk_posts>>
         ELSE IF ~tk_config
           THEN /\ tk_ret' = [tk_ret EXCEPT ![t] = 0]
                /\ tk_pc' = [tk_pc EXCEPT ![t] = "done"]
                /\ UNCHANGED <<tk_lock, tk_posts>>
           ELSE /\ tk_lock' = t
                /\ tk_posts' = Append(tk_posts,
                       [by |-> t, outcome |-> "pending", lifetime |-> Omitted])
                /\ tk_pc' = [tk_pc EXCEPT ![t] = "await"]
                /\ UNCHANGED tk_ret
    /\ UNCHANGED <<tk_token, tk_expiry, tk_now, tk_config, tk_epoch>>

\* The token request completes: raise_for_status, json, access_token;
\* `_CACHED_TOKEN = token` when there is one, else return None.
TkResponse(t, answer) ==
    /\ tk_pc[t] = "await"
    /\ tk_posts' = [tk_posts EXCEPT ![Len(tk_posts)] =
                       [by |-> t, outcome |-> answer.outcome, lifetime |-> answer.lifetime]]
    /\ tk_token' = StoredToken(answer, tk_token, Len(tk_posts))
    /\ IF answer.outcome = "ok"
         THEN /\ tk_pc' = [tk_pc EXCEPT ![t] = "store_expiry"]
              /\ UNCHANGED <<tk_lock, tk_ret>>
         ELSE /\ tk_ret' = [tk_ret EXCEPT ![t] = 0]
              /\ tk_pc' = [tk_pc EXCEPT ![t] = "done"]
              /\ tk_lock' = 0
    /\ UNCHANGED <<tk_expiry, tk_now, tk_config, tk_epoch>>

\* `_TOKEN_EXPIRY = time.time() + expires_in - 60; return token` (lock released).
TkStoreExpiry(t) ==
    /\ tk_pc[t] = "store_expiry"
    /\ tk_expiry' = ExpiryFor(tk_now, tk_posts[Len(tk_posts)].lifetime)
    /\ tk_ret' = [tk_ret EXCEPT ![t] = Len(tk_posts)]
    /\ tk_pc' = [tk_pc EXCEPT ![t] = "done"]
    /\ tk_lock' = 0
    /\ UNCHANGED <<tk_token, tk_now, tk_config, tk_epoch, tk_posts>>

\* Time passes.
TkTick ==
    /\ tk_now < MaxTicks * TickSec
    /\ tk_now' = tk_now + TickSec
    /\ UNCHANGED <<tk_token, tk_expiry, tk_lock, tk_config, tk_pc, tk_ret, tk_epoch, tk_posts>>



(***************************************************************************)
(* list_orcids_for_institution: orcid_service.py lines 173-271             *)
(***************************************************************************)

\* rows, the page size (1000 in the code), scaled down.
PageRows == 2

\* The upstream's result set ends: it answers at most MaxPages full pages.
MaxPages == 2

\* rows: int = 1000
DefaultRows == 1000

\* The "orcid-id" field of a search record as delivered: a core identifier
\* ("" when the field is absent, null or empty), possibly padded with blanks.
RawIds == [pad : BOOLEAN, core : {"", "a", "b"}]

\* (record.get("orcid-id") or "").strip()
Strip(raw) == raw.core

\* A record of "expanded-result".
SearchRecords == [id : RawIds]

\* Sequences over S of length 0..n.
SeqUpTo(S, n) == UNION {[1..k -> S] : k \in 0..n}

\* What a page request can produce: safe_get gave None or a non-200
\* response, response.json() raised, or a decoded "expanded-result" chunk.
PageAnswers ==
    {[kind |-> "failed", chunk |-> <<>>], [kind |-> "decode_error", chunk |-> <<>>]}
      \cup [kind : {"chunk"}, chunk : SeqUpTo(SearchRecords, PageRows)]

\* A mutation of DictSet: a list append instead of a keyed assignment.
DictSet_Append(d, k, v) == Append(d, [key |-> k, rec |-> v])

\* unique_results[k] = v on an insertion-ordered dict: an existing key keeps
\* its place and takes the new value, a new key goes to the end.
DictSet(d, k, v) ==
    IF \E i \in 1..Len(d) : d[i].key = k
      THEN [i \in 1..Len(d) |-> IF d[i].key = k THEN [key |-> k, rec |-> v] ELSE d[i]]
      ELSE Append(d, [key |-> k, rec |-> v])

\* for record in chunk: orcid_id = ...strip(); if orcid_id: unique_results[orcid_id] = record
RECURSIVE MergeChunk(_, _, _)
MergeChunk(d, chunk, i) ==
    IF i > Len(chunk) THEN d
    ELSE LET k == Strip(chunk[i].id) IN
         MergeChunk(IF k # "" THEN DictSet(d, k, chunk[i]) ELSE d, chunk, i + 1)

\* list(unique_results.values())
DictValues(d) == [i \in 1..Len(d) |-> d[i].rec]

\* query_parts, from the identifiers that are given
QueryParts(args) ==
    (IF args.ror THEN {"ror-org-id"} ELSE {}) \cup (IF args.grid THEN {"grid-org-id"} ELSE {})

\* get_client_credentials_token() as the search sees it: a valid cached
\* token is returned without a request; otherwise a token request is
\* issued and, when it succeeds (ok), the new token is stored.
TokenCall(slot, ok) ==
    IF slot # "none"
      THEN [slot |-> slot, posts |-> 0]
      ELSE [slot |-> IF ok THEN "refreshed" ELSE "none", posts |-> 1]

\* A mutation of EndOfResults: the length of a page never ends the loop.
EndOfResults_Never(chunk, rows) == FALSE

\* A mutation of EndOfResults: only an empty page ends the loop.
EndOfResults_OnlyEmpty(chunk, rows) == chunk = <<>>

\* if not chunk: break ... if len(chunk) < rows: break
EndOfResults(chunk, rows) == Len(chunk) < rows

\* A mutation of PartialResult: a failed page discards what was gathered.
PartialResult_Dropped(unique) == <<>>

\* break, then return list(unique_results.values())
PartialResult(unique) == DictValues(unique)

\* The kind of page a request gave.
PageKind(answer) ==
    IF answer.kind # "chunk" THEN answer.kind
    ELSE IF Len(answer.chunk) < PageRows THEN "short" ELSE "full"

\* The state before the call, the credential cache apart.
LoIdle ==
    /\ lo_pc = "idle"
    /\ lo_args = [ror |-> FALSE, grid |-> FALSE, url |-> FALSE]
    /\ lo_query = {}
    /\ lo_tokenCalls = 0
    /\ lo_start = 0
    /\ lo_unique = <<>>
    /\ lo_requests = <<>>
    /\ lo_seen = {}
    /\ lo_overlap = FALSE
    /\ lo_ret = <<>>
    /\ lo_pages = <<>>
    /\ lo_tokenPosts = 0

LoRest == LoIdle /\ lo_slot = "cached"

\* The credential cache is empty or expired, or holds a valid token.
LoInit == LoIdle /\ lo_slot \in {"none", "cached"}

\* Entry of list_orcids_for_institution, up to the pagination loop: the
\* search URL, the token, the query.
LoCall(args) ==
    /\ lo_pc = "idle"
    /\ lo_args' = args
    /\ lo_start' = 0
    /\ lo_unique' = <<>>
    /\ lo_ret' = <<>>
    /\ IF ~args.url
         THEN /\ lo_pc' = "done" /\ lo_tokenCalls' = lo_tokenCalls /\ lo_query' = {}
              /\ UNCHANGED <<lo_slot, lo_tokenPosts>>
         ELSE /\ lo_tokenCalls' = lo_tokenCalls + 1
              /\ \E ok \in BOOLEAN :
                    LET t == TokenCall(lo_slot, ok) IN
                    /\ lo_slot' = t.slot
                    /\ lo_tokenPosts' = lo_tokenPosts + t.posts
              /\ lo_query' = QueryParts(args)
              /\ lo_pc' = IF QueryParts(args) = {} THEN "done" ELSE "page"
    /\ UNCHANGED <<lo_requests, lo_seen, lo_overlap, lo_pages>>

\* The stripped non-empty ids of a chunk, in order.
ChunkIds(chunk) ==
    LET nonEmpty == {i \in 1..Len(chunk) : Strip(chunk[i].id) # ""} IN
    [i \in nonEmpty |-> Strip(chunk[i].id)]

\* One iteration of `while True`: the page request and what follows from
\* its answer, up to the next request or the return.
LoPage(answer) ==
    /\ lo_pc = "page"
    /\ Len(answer.chunk) = PageRows => Len(lo_requests) < MaxPages
    /\ lo_requests' = Append(lo_requests, lo_start)
    /\ lo_pages' = Append(lo_pages, PageKind(answer))
    /\ IF answer.kind # "chunk"
         THEN \* break on a failed request or a decode error
              /\ lo_pc' = "done"
              /\ lo_ret' = PartialResult(lo_unique)
              /\ UNCHANGED <<lo_unique, lo_start, lo_seen, lo_overlap>>
         ELSE IF answer.chunk = <<>>
         THEN \* break on an empty chunk
              /\ lo_pc' = "done"
              /\ lo_ret' = DictValues(lo_unique)
              /\ UNCHANGED <<lo_unique, lo_start, lo_seen, lo_overlap>>
         ELSE LET merged == MergeChunk(lo_unique, answer.chunk, 1)
                  ids == ChunkIds(answer.chunk) IN
              /\ lo_unique' = merged
              /\ lo_seen' = lo_seen \cup {ids[i] : i \in DOMAIN ids}
              /\ lo_overlap' = \/ lo_overlap
                               \/ \E i \in DOMAIN ids : ids[i] \in lo_seen
                               \/ \E i, j \in DOMAIN ids : i # j /\ ids[i] = ids[j]
              /\ IF EndOfResults(answer.chunk, PageRows)
                   THEN /\ lo_pc' = "done"
                        /\ lo_ret' = DictValues(merged)
                        /\ lo_start' = lo_start
                   ELSE /\ lo_pc' = "page"
                        /\ lo_ret' = <<>>
                        /\ lo_start' = lo_start + PageRows
    /\ UNCHANGED <<lo_args, lo_query, lo_tokenCalls, lo_slot, lo_tokenPosts>>

(***************************************************************************)
(* _extract_status_from_profile: cache_service.py lines 113-164            *)
(***************************************************************************)

\* Largest number of summaries in one affiliation group.
MaxSummaries == 2

\* Numbers of affiliation groups a populated section may have.
GroupCounts == 0..2

\* JSON null, or a key that is absent (dict.get gives None for both).
Null == [null |-> TRUE]

\* A mutation of sections_to_check: the last section is not scanned.
sections_to_check_without_services ==
    <<"employments", "educations", "qualifications",
      "invited-positions", "distinctions", "memberships">>

\* sections_to_check
sections_to_check ==
    <<"employments", "educations", "qualifications",
      "invited-positions", "distinctions", "memberships", "services">>

\* The keys an activities object may carry (works and fundings are read by
\* the cache builders).
ActivityKeys ==
    {"employments", "educations", "qualifications", "invited-positions",
     "distinctions", "memberships", "services"}

\* {"source-client-id": {"path": p}}, {"source-client-id": null}
SourceWith(p) == [cid |-> [path |-> p]]
SourceNoClient == [cid |-> Null]

\* A value of a summary dict: a dict carrying "source", a dict without it,
\* or a scalar.
Item(src) == [isDict |-> TRUE, hasSource |-> TRUE, source |-> src]
PlainDict == [isDict |-> TRUE, hasSource |-> FALSE, source |-> Null]
Scalar == [isDict |-> FALSE, hasSource |-> FALSE, source |-> Null]

\* Summaries (the values of each, in dict order) a group is drawn from.
SummaryKinds ==
    { <<Item(SourceNoClient)>>,
      <<PlainDict, Item(SourceWith("am"))>>,
      <<Item(SourceWith("other"))>> }

\* Further summaries, tried alone in a second section.
EdgeSummaries ==
    { <<Scalar>>,
      <<Item(Null)>>,
      <<Item(SourceWith(""))>>,
      <<Item(SourceWith("sys"))>> }

\* {"summaries": [...]}
Groups == [summaries : SeqUpTo(SummaryKinds, MaxSummaries)]

\* A section: null/absent, or {"affiliation-group": [...]}.
RichSections ==
    {Null} \cup [groups : UNION {[1..n -> Groups] : n \in GroupCounts}]

EdgeSections ==
    {Null} \cup {[groups |-> <<[summaries |-> <<e>>]>>] : e \in EdgeSummaries}

\* The section that is populated second: the last one, or the first when
\* the last is the richly populated one.
SecondOf(sec) == IF sec = "services" THEN "employments" ELSE "services"

\* Activities objects: one richly populated section, one more section with
\* a single summary (or none), every other section absent.
ActivitiesObjects ==
    { [k \in ActivityKeys |->
          IF k = sec THEN rich ELSE IF k = SecondOf(sec) THEN edge ELSE Null] :
      sec \in ActivityKeys, rich \in RichSections, edge \in EdgeSections }

\* profile_data as the classifier reads it.
Profiles == [activities_summary : {Null} \cup ActivitiesObjects]

\* trusted_ids as build_works_cache_for_ror builds it: the system client
\* id, and the institution's Affiliation Manager id when one is configured.
TrustedLists == {<<"sys">>, <<"sys", "am">>}

\* x in trusted_ids
InList(x, list) == \E i \in 1..Len(list) : list[i] = x

\* next((val for val in summary.values()
\*       if isinstance(val, dict) and 'source' in val), None)
RECURSIVE ItemData(_, _)
ItemData(summary, i) ==
    IF i > Len(summary) THEN Null
    ELSE IF summary[i].isDict /\ summary[i].hasSource THEN summary[i]
    ELSE ItemData(summary, i + 1)

\* (source.get('source-client-id') or {}).get('path'), "" for None
SourceClientPath(item) ==
    LET source == IF item.source = Null THEN [cid |-> Null] ELSE item.source
        client == IF source.cid = Null THEN [path |-> ""] ELSE source.cid
    IN client.path

\* The body of `for summary in ...`: TRUE when it sets is_managed.
SummaryManaged(summary, trusted) ==
    LET item == ItemData(summary, 1) IN
    IF item = Null THEN FALSE
    ELSE LET path == SourceClientPath(item) IN path # "" /\ InList(path, trusted)

\* for summary in group.get('summaries', []): ... break
RECURSIVE ScanSummaries(_, _, _)
ScanSummaries(summaries, i, trusted) ==
    IF i > Len(summaries) THEN FALSE
    ELSE IF SummaryManaged(summaries[i], trusted) THEN TRUE
    ELSE ScanSummaries(summaries, i + 1, trusted)

\* for group in section_data.get('affiliation-group', []): ... break
RECURSIVE ScanGroups(_, _, _)
ScanGroups(groups, i, trusted) ==
    IF i > Len(groups) THEN FALSE
    ELSE IF ScanSummaries(groups[i].summaries, 1, trusted) THEN TRUE
    ELSE ScanGroups(groups, i + 1, trusted)

\* for section in sections_to_check: section_data = activities.get(section) or {} ...
RECURSIVE ScanSections(_, _, _)
ScanSections(activities, i, trusted) ==
    IF i > Len(sections_to_check) THEN FALSE
    ELSE LET section_data == activities[sections_to_check[i]]
             groups == IF section_data = Null THEN <<>> ELSE section_data.groups
         IN IF ScanGroups(groups, 1, trusted) THEN TRUE
            ELSE ScanSections(activities, i + 1, trusted)

\* _extract_status_from_profile(...).is_managed_by_am
ExtractStatus(profile, trusted) ==
    LET activities == IF profile.activities_summary = Null
                        THEN [k \in ActivityKeys |-> Null]
                        ELSE profile.activities_summary
    IN ScanSections(activities, 1, trusted)

\* A JSON list or dict that may also be an explicit null: the value of
\* 'affiliation-group', of 'summaries', or a summary object (its values).
NullList == [isNull |-> TRUE, items |-> <<>>]
List(items) == [isNull |-> FALSE, items |-> items]

\* Profiles with parts that are absent or null: under 'employments' a list
\* of groups, itself null or holding up to two groups, each null or with a
\* 'summaries' list that is null or holds one summary, itself null or a
\* dict; 'services' is absent or names the Affiliation Manager.
IncompleteProfiles ==
    LET IncompleteSummaries ==
            {NullList, List(<<Item(Null)>>), List(<<Item(SourceNoClient)>>),
             List(<<Item(SourceWith("am"))>>)}
        IncompleteGroups ==
            {Null, [summaries |-> NullList], [summaries |-> List(<<>>)]}
              \cup {[summaries |-> List(<<x>>)] : x \in IncompleteSummaries}
    IN
    {[activities_summary |->
         [k \in ActivityKeys |->
             IF k = "employments" THEN first
             ELSE IF k = "services" THEN last
             ELSE Null]] :
       first \in {Null, [groups |-> NullList]}
                  \cup {[groups |-> List(gs)] : gs \in SeqUpTo(IncompleteGroups, 2)},
       last \in {Null,
                 [groups |-> List(<<[summaries |-> List(<<List(<<Item(SourceWith("am"))>>)>>)]>>)]}}

\* for summary in group.get('summaries', []): iterating an explicit null
\* raises TypeError, and so does summary.values() on a null summary
\* (AttributeError).
RECURSIVE ScanSummariesOrRaise(_, _, _)
ScanSummariesOrRaise(summaries, i, trusted) ==
    IF summaries.isNull THEN "raises"
    ELSE IF i > Len(summaries.items) THEN "unmanaged"
    ELSE IF summaries.items[i].isNull THEN "raises"
    ELSE IF SummaryManaged(summaries.items[i].items, trusted) THEN "managed"
    ELSE ScanSummariesOrRaise(summaries, i + 1, trusted)

\* for group in section_data.get('affiliation-group', []): iterating an
\* explicit null raises TypeError, group.get on a null group AttributeError.
RECURSIVE ScanGroupsOrRaise(_, _, _)
ScanGroupsOrRaise(groups, i, trusted) ==
    IF groups.isNull THEN "raises"
    ELSE IF i > Len(groups.items) THEN "unmanaged"
    ELSE IF groups.items[i] = Null THEN "raises"
    ELSE LET r == ScanSummariesOrRaise(groups.items[i].summaries, 1, trusted) IN
         IF r # "unmanaged" THEN r ELSE ScanGroupsOrRaise(groups, i + 1, trusted)

\* for section in sections_to_check: section_data = activities.get(section) or {}
RECURSIVE ScanSectionsOrRaise(_, _, _)
ScanSectionsOrRaise(activities, i, trusted) ==
    IF i > Len(sections_to_check) THEN "unmanaged"
    ELSE LET section_data == activities[sections_to_check[i]]
             groups == IF section_data = Null THEN List(<<>>) ELSE section_data.groups
             r == ScanGroupsOrRaise(groups, 1, trusted)
         IN IF r # "unmanaged" THEN r ELSE ScanSectionsOrRaise(activities, i + 1, trusted)

\* _extract_status_from_profile on such a profile: "managed", "unmanaged",
\* or "raises".
ExtractStatusOrRaise(profile, trusted) ==
    ScanSectionsOrRaise(IF profile.activities_summary = Null
                          THEN [k \in ActivityKeys |-> Null]
                          ELSE profile.activities_summary, 1, trusted)

\* The two names under which the API delivers the activities subtree.
RecordKeys == {"activities-summary", "activities"}

\* A key that is not in a dict.
Absent == [absent |-> TRUE]

\* The activities subtrees of the records served: the affiliation sections
\* and the numbers of work and funding summaries.
RecordContents ==
    [sections : {[k \in ActivityKeys |-> Null]}
                  \cup {[k \in ActivityKeys |->
                           IF k = "employments"
                             THEN [groups |-> <<[summaries |-> <<s>>]>>]
                             ELSE Null] : s \in SummaryKinds},
     works : 0..2,
     fundings : 0..1]

\* The records served: the subtree under one of the two names.
RecordDocs == [key : RecordKeys, content : RecordContents]

\* response.json() of a record: a dict with the subtree under doc.key.
Delivered(doc) == [k \in RecordKeys |-> IF k = doc.key THEN doc.content ELSE Absent]

\* if 'activities-summary' in data: data['activities'] = data['activities-summary']
Normalize(data) ==
    IF data["activities-summary"] # Absent
      THEN [data EXCEPT !["activities"] = data["activities-summary"]]
      ELSE data

\* The return value of fetch_single_profile: the normalized dict of a 200
\* response, {} otherwise.
NoData == [empty |-> TRUE, dict |-> [k \in RecordKeys |-> Absent]]
FetchedData(ok, doc) ==
    IF ok THEN [empty |-> FALSE, dict |-> Normalize(Delivered(doc))] ELSE NoData

\* profile.get('activities-summary') or {}, in the classifier and in both
\* builders.
NoContent == [sections |-> [k \in ActivityKeys |-> Null], works |-> 0, fundings |-> 0]
ActivitiesRead(dict) ==
    IF dict["activities-summary"] = Absent THEN NoContent ELSE dict["activities-summary"]

\* The loop body of build_works_cache_for_ror / build_fundings_cache_for_ror
\* for one fetched profile: `if not profile: continue`, the status row
\* (Publications only) and the rows of the target.
NoOut ==
    [target |-> "works", trusted |-> <<>>, skipped |-> TRUE, managed |-> FALSE, rows |-> 0]
LoopBody(data, target, trusted) ==
    IF data.empty THEN [NoOut EXCEPT !.target = target, !.trusted = trusted]
    ELSE LET activities == ActivitiesRead(data.dict) IN
         [target |-> target, trusted |-> trusted, skipped |-> FALSE,
          managed |-> target = "works"
                        /\ ExtractStatus([activities_summary |-> activities.sections], trusted),
          rows |-> IF target = "works" THEN activities.works ELSE activities.fundings]

FpRest ==
    /\ fp_pc = "input"
    /\ fp_doc = [key |-> "activities-summary", content |-> NoContent]
    /\ fp_data = NoData
    /\ fp_out = NoOut

FpInit ==
    /\ fp_pc = "input"
    /\ fp_doc \in RecordDocs
    /\ fp_data = NoData
    /\ fp_out = NoOut

\* fetch_single_profile for the record. ok: safe_get returned a 200.
FpFetch(ok) ==
    /\ fp_pc = "input"
    /\ fp_data' = FetchedData(ok, fp_doc)
    /\ fp_pc' = "fetched"
    /\ UNCHANGED <<fp_doc, fp_out>>

\* One pass of a builder's loop over the fetched profile.
FpProcess(target, trusted) ==
    /\ fp_pc = "fetched"
    /\ fp_out' = LoopBody(fp_data, target, trusted)
    /\ fp_pc' = "done"
    /\ UNCHANGED <<fp_doc, fp_data>>

ClIdle ==
    /\ cl_pc = "input"
    /\ cl_profile = [activities_summary |-> Null]
    /\ cl_trusted = <<>>
    /\ cl_managed = FALSE

ClRest == ClIdle /\ FpRest

ClInit ==
    /\ cl_pc = "input"
    /\ cl_profile \in Profiles
    /\ cl_trusted \in TrustedLists
    /\ cl_managed = FALSE
    /\ FpRest

\* One call of _extract_status_from_profile on such a profile.
ClClassifyIncomplete ==
    /\ cl_pc = "input"
    /\ LET r == ExtractStatusOrRaise(cl_profile, cl_trusted) IN
       /\ cl_managed' = (r = "managed")
       /\ cl_pc' = IF r = "raises" THEN "raised" ELSE "done"
    /\ UNCHANGED <<cl_profile, cl_trusted, fp_pc, fp_doc, fp_data, fp_out>>

\* One call of _extract_status_from_profile on the drawn input.
ClClassify ==
    /\ cl_pc = "input"
    /\ cl_managed' = ExtractStatus(cl_profile, cl_trusted)
    /\ cl_pc' = "done"
    /\ UNCHANGED <<cl_profile, cl_trusted, fp_pc, fp_doc, fp_data, fp_out>>

(***************************************************************************)
(* _flush_bulk, build_works_cache_for_ror, build_fundings_cache_for_ror:   *)
(* cache_service.py lines 36-61, 171-364; rebuild_cache, _log_run_web:     *)
(* cache_control.py lines 70-167                                           *)
(***************************************************************************)

\* len(works_buffer) >= 2000 and len(funding_buffer) >= 2000, scaled down.
EntityFlushAt == 2

\* len(status_buffer) >= 1000, scaled down.
StatusFlushAt == 1

\* Largest number of work (funding) summaries in one record.
MaxItems == 2

\* The invocations explored: a first one and the one after it.
RunNumbers == {1, 2}

Persons == {"p1", "p2"}

\* The institution that is rebuilt, and another one whose rows are cached.
RebuiltRor == "r1"
OtherRor == "r2"

Targets == {"works", "fundings"}

\* The records the member API serves: how many work and funding summaries.
Docs ==
    {d \in [Persons -> [works : 0..MaxItems, fundings : {1}]] : d["p2"].works = 1}

\* The activities of each person's record, for the classifier.
PersonActivities(p) ==
    IF p = "p1"
      THEN [k \in ActivityKeys |->
              IF k = "employments"
                THEN [groups |-> <<[summaries |-> << <<PlainDict, Item(SourceWith("am"))>> >>]>>]
                ELSE Null]
      ELSE [k \in ActivityKeys |-> Null]

\* trusted_ids = [system_client_id] + [manager_user.am_client_id]
TrustedFor(ror) == IF ror = RebuiltRor THEN <<"sys", "am">> ELSE <<"sys">>

\* The WorkCache rows appended for one profile (one per work-summary).
ExtractWorks(ror, p, doc) ==
    SetToBag({[ror |-> ror, orcid |-> p, item |-> k] : k \in 1..doc.works})

\* The FundingCache rows appended for one profile (one per funding-summary).
ExtractFundings(ror, p, doc) ==
    SetToBag({[ror |-> ror, orcid |-> p, item |-> k] : k \in 1..doc.fundings})

ExtractRows(target, ror, p, doc) ==
    IF target = "works" THEN ExtractWorks(ror, p, doc) ELSE ExtractFundings(ror, p, doc)

\* _extract_status_from_profile(profile, ror_id, orcid_id, trusted_ids)
StatusRow(ror, p) ==
    [ror |-> ror, orcid |-> p,
     managed |-> ExtractStatus([activities_summary |-> PersonActivities(p)], TrustedFor(ror))]

\* A mutation of DeleteRor: the delete has no filter.
DeleteRor_All(table, ror) == EmptyBag

\* Model.query.filter_by(ror_id=ror_id).delete(): the rows of other institutions.
DeleteRor(table, ror) ==
    [r \in {x \in DOMAIN table : x.ror # ror} |-> table[r]]

\* The rows of one institution.
RowsOf(table, ror) ==
    [r \in {x \in DOMAIN table : x.ror = ror} |-> table[r]]

\* A mutation of FlushBulk: the list is not cleared after the commit.
FlushBulk_KeepsList(bulk, table, ok) ==
    IF bulk = EmptyBag
      THEN [table |-> table, bulk |-> bulk, count |-> 0]
    ELSE IF ok
      THEN [table |-> table (+) bulk, bulk |-> bulk, count |-> BagCardinality(bulk)]
    ELSE [table |-> table, bulk |-> bulk, count |-> 0]

\* _flush_bulk(bulk, model_name): the table and the list afterwards, and the
\* returned count. ok: bulk_save_objects and commit succeed. On failure the
\* session is rolled back and the list is left as it is.
FlushBulk(bulk, table, ok) ==
    IF bulk = EmptyBag
      THEN [table |-> table, bulk |-> bulk, count |-> 0]
    ELSE IF ok
      THEN [table |-> table (+) bulk, bulk |-> EmptyBag, count |-> BagCardinality(bulk)]
    ELSE [table |-> table, bulk |-> bulk, count |-> 0]

\* The handlers that invoke a builder and keep a run log:
\* rebuild_cache (cache_control.py), rebuild_caches (commands.py),
\* cache_full_build and cache_fundings_build (works.py).
Callers == {"rebuild_cache", "rebuild_caches", "cache_full_build", "cache_fundings_build"}

\* The handlers that insert a 'running' row before they call the builder.
OpensRunFirst(caller) == caller \in {"cache_full_build", "cache_fundings_build"}

\* The error column of a row without error text.
NoError == "none"

\* The rows a call of _flush_bulk on `bulk` with result `flushed` committed.
Committed(bulk, flushed) == IF flushed.count > 0 THEN bulk ELSE EmptyBag

\* No flush has failed.
NothingDropped == [entity |-> {}, status |-> {}, resubmitted |-> FALSE]

\* The record of failed batches after _flush_bulk was called (if `called`)
\* on `bulk` of buffer `which` with result `flushed`.
NoteFlush(dropped, which, called, bulk, flushed) ==
    IF ~called \/ bulk = EmptyBag
      THEN dropped
      ELSE [dropped EXCEPT
              ![which] = IF flushed.bulk = EmptyBag THEN @ ELSE @ \cup BagToSet(bulk),
              !.resubmitted = @ \/ (BagToSet(bulk) \cap dropped[which] # {})]

\* A row of WorkCacheRun / FundingCacheRun; finished: finished_at is set.
RunRow(target, ror, status, count, error, finished) ==
    [target |-> target, ror |-> ror, status |-> status, rows_count |-> count,
     error |-> error, finished |-> finished]

\* WorkCacheRun(ror_id=ror_id, status='running', started_at=dt.utcnow())
RunningRow(target, ror) == RunRow(target, ror, "running", 0, NoError, FALSE)

\* The run log after the handler has dealt with the builder's outcome.
\* raised: the builder raised, with exception text `text`.
\*  - rebuild_cache, rebuild_caches: one row is inserted, 'success' with
\*    the count or 'failed' with 0 and the text.
\*  - cache_fundings_build: the 'running' row becomes 'success' or 'failed'.
\*  - cache_full_build: the 'running' row becomes 'success' only when the
\*    builder returned; its except clause does not touch the row.
\* The last two set finished_at in their finally clause.
CloseRun(runs, caller, target, ror, raised, count, text) ==
    LET n == Len(runs) IN
    IF ~OpensRunFirst(caller)
      THEN Append(runs, IF raised THEN RunRow(target, ror, "failed", 0, text, TRUE)
                                  ELSE RunRow(target, ror, "success", count, NoError, TRUE))
    ELSE IF ~raised
      THEN [runs EXCEPT ![n] = RunRow(target, ror, "success", count, NoError, TRUE)]
    ELSE IF caller = "cache_fundings_build"
      THEN [runs EXCEPT ![n] = RunRow(target, ror, "failed", runs[n].rows_count, text, TRUE)]
    ELSE [runs EXCEPT ![n] = RunRow(target, ror, runs[n].status, runs[n].rows_count,
                                     runs[n].error, TRUE)]

NoRun ==
    [n |-> 0, target |-> "works", outcome |-> "none", researchers |-> {}, failed |-> {}, flushesOk |-> TRUE, clean |-> FALSE,
     repeat |-> FALSE, count |-> 0, committed |-> 0, rows |-> EmptyBag,
     written |-> EmptyBag, started |-> TRUE, purged |-> FALSE, refused |-> 0]

\* The table a target's rows are kept in.
TableOf(target) == IF target = "works" THEN db_works ELSE db_fundings

\* The facts of an invocation that returned `count`, for the claims.
Completed(target, researchers, failed, flushesOk, count, committed, table, written) ==
    LET clean == flushesOk /\ failed = {} /\ researchers = up_pop IN
    [n |-> rb_last.n + 1, target |-> target, outcome |-> "returned",
     researchers |-> researchers, failed |-> failed, flushesOk |-> flushesOk,
     clean |-> clean,
     repeat |-> /\ rb_last.n >= 1 /\ rb_last.clean /\ clean
                /\ rb_last.target = target
                /\ ~up_changed,
     count |-> count, committed |-> committed, rows |-> RowsOf(table, RebuiltRor),
     written |-> written, started |-> rb_started, purged |-> rb_purged,
     refused |-> rb_last.refused]

\* The facts of an invocation whose builder raised.
Raised(target, researchers, table) ==
    [n |-> rb_last.n + 1, target |-> target, outcome |-> "raised",
     researchers |-> researchers, failed |-> {}, flushesOk |-> TRUE,
     clean |-> FALSE, repeat |-> FALSE, count |-> 0, committed |-> 0,
     rows |-> RowsOf(table, RebuiltRor), written |-> EmptyBag,
     started |-> TRUE, purged |-> FALSE, refused |-> rb_last.refused]

\* Where a handler goes when a builder has ended: cache_full_build goes on
\* with the Grants step (and opens its run row) and then with the sync of
\* the names, the others are done.
GoesOn(caller, target) == caller = "cache_full_build" /\ target = "works"

AfterBuilder(closed, caller, target) ==
    IF GoesOn(caller, target)
      THEN [pc |-> "discover", caller |-> caller, target |-> "fundings",
            runs |-> Append(closed, RunningRow("fundings", RebuiltRor))]
      ELSE IF caller = "cache_full_build"
      THEN [pc |-> "names", caller |-> caller, target |-> target, runs |-> closed]
      ELSE [pc |-> "idle", caller |-> "none", target |-> target, runs |-> closed]

BuildRest ==
    /\ db_works = EmptyBag
    /\ db_fundings = EmptyBag
    /\ db_status = EmptyBag
    /\ db_runs = <<>>
    /\ db_names = EmptyBag
    /\ up_pop = {}
    /\ up_docs = [p \in Persons |-> [works |-> 0, fundings |-> 0]]
    /\ up_changed = FALSE
    /\ rb_pc = "idle"
    /\ rb_caller = "none"
    /\ rb_target = "works"
    /\ rb_researchers = {}
    /\ rb_failed = {}
    /\ rb_todo = {}
    /\ rb_buffer = EmptyBag
    /\ rb_status_buffer = EmptyBag
    /\ rb_total = 0
    /\ rb_committed = 0
    /\ rb_written = EmptyBag
    /\ rb_dropped = NothingDropped
    /\ rb_flushesOk = TRUE
    /\ rb_last = NoRun
    /\ rb_started = TRUE
    /\ rb_purged = FALSE

\* The caches hold rows of another institution; the rebuilt institution has
\* not been cached yet.
BuildInit ==
    /\ db_works = SetToBag({[ror |-> OtherRor, orcid |-> "p2", item |-> 1]})
    /\ db_fundings = SetToBag({[ror |-> OtherRor, orcid |-> "p2", item |-> 1]})
    /\ db_status = SetToBag({[ror |-> OtherRor, orcid |-> "p2", managed |-> FALSE]})
    /\ db_runs = <<>>
    /\ db_names = SetToBag({[orcid |-> "p2", name |-> "current"]})
    /\ up_pop \in SUBSET Persons
    /\ up_docs \in Docs
    /\ up_changed = FALSE
    /\ rb_pc = "idle"
    /\ rb_caller = "none"
    /\ rb_target = "works"
    /\ rb_researchers = {}
    /\ rb_failed = {}
    /\ rb_todo = {}
    /\ rb_buffer = EmptyBag
    /\ rb_status_buffer = EmptyBag
    /\ rb_total = 0
    /\ rb_committed = 0
    /\ rb_written = EmptyBag
    /\ rb_dropped = NothingDropped
    /\ rb_flushesOk = TRUE
    /\ rb_last = NoRun
    /\ rb_started = TRUE
    /\ rb_purged = FALSE

\* The registry changes between two invocations.
UpstreamChange(pop, docs) ==
    /\ rb_pc = "idle"
    /\ Len(db_runs) + 1 \in RunNumbers
    /\ ~up_changed
    /\ <<pop, docs>> # <<up_pop, up_docs>>
    /\ up_pop' = pop
    /\ up_docs' = docs
    /\ up_changed' = TRUE
    /\ UNCHANGED <<dbVars, rbVars>>

\* if not researchers: return 0
NothingFound(researchers) == researchers = {}

\* What a handler does once its builder has ended: the run log is closed
\* and the handler goes on or is done.
Conclude(raised, count, text) ==
    LET closed == CloseRun(db_runs, rb_caller, rb_target, RebuiltRor, raised, count, text)
        nxt == AfterBuilder(closed, rb_caller, rb_target)
    IN /\ db_runs' = nxt.runs
       /\ rb_pc' = nxt.pc
       /\ rb_caller' = nxt.caller
       /\ rb_target' = nxt.target
       /\ up_changed' = FALSE

\* A handler is invoked and reaches its call of the builder. rebuild_cache
\* and rebuild_caches get here only with a token (and, for the command, a
\* member URL); cache_full_build and cache_fundings_build first insert and
\* commit a 'running' row. cache_full_build starts with Publications and
\* will write two run rows.
RbStart(caller, target) ==
    /\ rb_pc = "idle"
    /\ Len(db_runs) + 1 \in RunNumbers
    /\ caller = "cache_full_build" => (target = "works" /\ Len(db_runs) + 2 \in RunNumbers)
    /\ caller = "cache_fundings_build" => target = "fundings"
    /\ rb_caller' = caller
    /\ rb_target' = target
    /\ rb_pc' = "discover"
    /\ db_runs' = IF OpensRunFirst(caller)
                    THEN Append(db_runs, RunningRow(target, RebuiltRor))
                    ELSE db_runs
    /\ UNCHANGED <<db_works, db_fundings, db_status, db_names, upVars, rb_researchers,
                   rb_failed, rb_todo, rb_buffer, rb_status_buffer, rb_total,
                   rb_committed, rb_written, rb_dropped, rb_flushesOk, rb_last,
                   rb_started, rb_purged>>

\* Invocations that end before the builder is called, in one behaviour.
MaxRefused == 1

\* The reasons for which rebuild_cache and rebuild_caches end before they
\* call a builder: rebuild_cache got no base URL or no headers from
\* _get_api_context, or its target is neither 'works' nor 'fundings';
\* rebuild_caches got no token. (The target of rebuild_caches is one of the
\* choices of its option.)
Refusals ==
    {<<"rebuild_cache", "no token">>, <<"rebuild_cache", "invalid target">>,
     <<"rebuild_caches", "no token">>}

\* The run log after an invocation that ended early: flash_err and
\* redirect (rebuild_cache), click.echo and return (rebuild_caches).
RefusedRuns(runs, target, why) == runs

\* A handler is invoked for the institution and ends before it calls a
\* builder; it is the invocation that follows the last rebuild of the
\* behaviour, so the run log holds the rows of earlier invocations.
RbRefuse(caller, target, why) ==
    /\ rb_pc = "idle"
    /\ Len(db_runs) + 1 \notin RunNumbers
    /\ <<caller, why>> \in Refusals
    /\ why = "invalid target" <=> target \notin Targets
    /\ rb_last.refused < MaxRefused
    /\ db_runs' = RefusedRuns(db_runs, target, why)
    /\ rb_last' = [rb_last EXCEPT !.refused = @ + 1]
    /\ UNCHANGED <<db_works, db_fundings, db_status, db_names, upVars, rb_pc, rb_caller,
                   rb_target, rb_researchers, rb_failed, rb_todo, rb_buffer,
                   rb_status_buffer, rb_total, rb_committed, rb_written, rb_dropped,
                   rb_flushesOk, rb_started, rb_purged>>

\* The discovery phase of a builder. found: the persons
\* list_orcids_for_institution returned (all of the population, or fewer
\* when a page request failed). With nothing found the builder returns 0.
RbDiscover(found) ==
    /\ rb_pc = "discover"
    /\ found \subseteq up_pop
    /\ rb_researchers' = found
    /\ rb_failed' = {}
    /\ rb_todo' = {}
    /\ rb_buffer' = EmptyBag
    /\ rb_status_buffer' = EmptyBag
    /\ rb_total' = 0
    /\ rb_committed' = 0
    /\ rb_written' = EmptyBag
    /\ rb_dropped' = NothingDropped
    /\ rb_flushesOk' = TRUE
    /\ rb_started' = TRUE
    /\ rb_purged' = FALSE
    /\ IF NothingFound(found)
         THEN /\ Conclude(FALSE, 0, NoError)
              /\ rb_last' = Completed(rb_target, found, {}, TRUE, 0, 0, TableOf(rb_target),
                                      EmptyBag)
         ELSE /\ rb_pc' = "purge"
              /\ UNCHANGED <<db_runs, rb_caller, rb_target, rb_last, up_changed>>
    /\ UNCHANGED <<db_works, db_fundings, db_status, db_names, up_pop, up_docs>>

\* A mutation of PurgeWorks: the purge deletes nothing.
PurgeWorks_Skipped(table, ror) == table

\* WorkCache.query.filter_by(ror_id=ror_id).delete(synchronize_session=False)
PurgeWorks(table, ror) == DeleteRor(table, ror)

\* A mutation of PurgeStatus: the status rows are not deleted.
PurgeStatus_Skipped(table, ror) == table

\* ResearcherStatus.query.filter_by(ror_id=ror_id).delete(synchronize_session=False)
PurgeStatus(table, ror) == DeleteRor(table, ror)

\* The text of the exception a failing purge raises.
PurgeError == "purge failed"

\* The cleanup phase: the deletes and their commit. ok: the commit
\* succeeds; otherwise it raises, nothing is deleted and the exception
\* reaches the handler.
RbPurge(ok) ==
    /\ rb_pc = "purge"
    /\ IF ok
         THEN /\ IF rb_target = "works"
                   THEN /\ db_works' = PurgeWorks(db_works, RebuiltRor)
                        /\ db_status' = PurgeStatus(db_status, RebuiltRor)
                        /\ UNCHANGED db_fundings
                   ELSE /\ db_fundings' = DeleteRor(db_fundings, RebuiltRor)
                        /\ UNCHANGED <<db_works, db_status>>
              /\ rb_pc' = "fetch"
              /\ rb_purged' = (RowsOf(TableOf(rb_target), RebuiltRor) # EmptyBag
                               \/ (rb_target = "works"
                                     /\ RowsOf(db_status, RebuiltRor) # EmptyBag))
              /\ UNCHANGED <<db_runs, rb_caller, rb_target, rb_last, up_changed>>
         ELSE /\ Conclude(TRUE, 0, PurgeError)
              /\ rb_last' = Raised(rb_target, rb_researchers, TableOf(rb_target))
              /\ UNCHANGED <<db_works, db_fundings, db_status, rb_purged>>
    /\ UNCHANGED <<db_names, up_pop, up_docs, rb_researchers, rb_failed, rb_todo,
                   rb_buffer, rb_status_buffer, rb_total, rb_committed, rb_written,
                   rb_dropped, rb_flushesOk, rb_started>>

\* The keys of get_all_profiles_concurrently(orcid_ids): nothing when the
\* member URL or the token is missing, else the ids whose fetch gave a record.
ProfilesMap(researchers, failed, started) ==
    IF started THEN researchers \ failed ELSE {}

\* The fetch phase. failed: the persons whose fetch yields nothing.
RbFetch(failed, started) ==
    /\ rb_pc = "fetch"
    /\ failed \subseteq rb_researchers
    /\ ~started => failed = rb_researchers
    /\ rb_failed' = failed
    /\ rb_todo' = ProfilesMap(rb_researchers, failed, started)
    /\ rb_started' = started
    /\ rb_pc' = "process"
    /\ UNCHANGED <<dbVars, upVars, rb_caller, rb_target, rb_researchers, rb_buffer,
                   rb_status_buffer, rb_total, rb_committed, rb_written, rb_dropped,
                   rb_flushesOk, rb_last, rb_purged>>

\* One iteration of `for orcid_id, profile in profiles_map.items()`: the
\* status row, the entity rows, the count, and the periodic flushes.
\* eOk, sOk: whether a flush of the entity / status buffer would commit.
RbProcess(p, eOk, sOk) ==
    /\ rb_pc = "process"
    /\ p \in rb_todo
    /\ LET rows == ExtractRows(rb_target, RebuiltRor, p, up_docs[p])
           buf == rb_buffer (+) rows
           sbuf == IF rb_target = "works"
                     THEN rb_status_buffer (+) SetToBag({StatusRow(RebuiltRor, p)})
                     ELSE rb_status_buffer
           eDue == BagCardinality(buf) >= EntityFlushAt
           sDue == rb_target = "works" /\ BagCardinality(sbuf) >= StatusFlushAt
           ef == IF eDue THEN FlushBulk(buf, TableOf(rb_target), eOk)
                         ELSE [table |-> TableOf(rb_target), bulk |-> buf, count |-> 0]
           sf == IF sDue THEN FlushBulk(sbuf, db_status, sOk)
                         ELSE [table |-> db_status, bulk |-> sbuf, count |-> 0]
       IN
       /\ eDue \/ eOk
       /\ sDue \/ sOk
       /\ rb_total' = rb_total + BagCardinality(rows)
       /\ rb_buffer' = ef.bulk
       /\ rb_status_buffer' = sf.bulk
       /\ rb_committed' = rb_committed + ef.count
       /\ rb_written' = rb_written (+) Committed(buf, ef)
       /\ rb_dropped' = NoteFlush(NoteFlush(rb_dropped, "entity", eDue, buf, ef),
                                  "status", sDue, sbuf, sf)
       /\ rb_flushesOk' = (rb_flushesOk /\ eOk /\ sOk)
       /\ IF rb_target = "works"
            THEN db_works' = ef.table /\ UNCHANGED db_fundings
            ELSE db_fundings' = ef.table /\ UNCHANGED db_works
       /\ db_status' = sf.table
    /\ rb_todo' = rb_todo \ {p}
    /\ UNCHANGED <<db_runs, db_names, upVars, rb_pc, rb_caller, rb_target,
                   rb_researchers, rb_failed, rb_last, rb_started, rb_purged>>

\* return total_works_cached / return total_fundings_cached
ReturnedTotal(total, researchers) == total

\* The final flushes, the return of the builder, and what the handler does
\* with the returned count.
RbFinish(eOk, sOk) ==
    /\ rb_pc = "process"
    /\ rb_todo = {}
    /\ LET ef == FlushBulk(rb_buffer, TableOf(rb_target), eOk)
           sf == IF rb_target = "works"
                   THEN FlushBulk(rb_status_buffer, db_status, sOk)
                   ELSE [table |-> db_status, bulk |-> rb_status_buffer, count |-> 0]
           count == ReturnedTotal(rb_total, rb_researchers)
           ok == rb_flushesOk /\ eOk /\ sOk
       IN
       /\ rb_buffer # EmptyBag \/ eOk
       /\ (rb_target = "works" /\ rb_status_buffer # EmptyBag) \/ sOk
       /\ IF rb_target = "works"
            THEN db_works' = ef.table /\ UNCHANGED db_fundings
            ELSE db_fundings' = ef.table /\ UNCHANGED db_works
       /\ db_status' = sf.table
       /\ rb_buffer' = EmptyBag
       /\ rb_status_buffer' = EmptyBag
       /\ rb_committed' = rb_committed + ef.count
       /\ rb_written' = rb_written (+) Committed(rb_buffer, ef)
       /\ rb_dropped' = NoteFlush(NoteFlush(rb_dropped, "entity", TRUE, rb_buffer, ef),
                                  "status", rb_target = "works", rb_status_buffer, sf)
       /\ rb_flushesOk' = ok
       /\ Conclude(FALSE, count, NoError)
       /\ rb_last' = Completed(rb_target, rb_researchers, rb_failed, ok,
                               count, rb_committed + ef.count, ef.table,
                               rb_written (+) Committed(rb_buffer, ef))
    /\ UNCHANGED <<db_names, up_pop, up_docs, rb_researchers, rb_failed, rb_todo,
                   rb_total, rb_started, rb_purged>>

\* The persons that have a row of the institution in a cache table.
OrcidsOf(table, ror) == {r.orcid : r \in {x \in BagToSet(table) : x.ror = ror}}

\* all_orcids: the union of the persons of WorkCache and FundingCache
AllOrcids(ror) == OrcidsOf(db_works, ror) \cup OrcidsOf(db_fundings, ror)

\* The persons that have a row in researcher_cache.
NamedPersons(names) == {r.orcid : r \in BagToSet(names)}

\* The rows the sync writes: the names of the fetched records.
FetchedNames(keys) == SetToBag({[orcid |-> k, name |-> "current"] : k \in keys})

\* A mutation of UpsertNames: the table is replaced by the synced persons.
UpsertNames_Replace(names, keys) == FetchedNames(keys)

\* A mutation of UpsertNames: a row is added without looking for one.
UpsertNames_AlwaysInsert(names, keys) == names (+) FetchedNames(keys)

\* The upsert of build_researcher_names_cache: for a person in
\* profiles_map the row found in existing_researchers (one row of that
\* person) gets the fetched names, and a row is added when none is found.
UpsertNames(names, keys) ==
    LET found == [k \in keys \cap NamedPersons(names) |->
                     CHOOSE r \in BagToSet(names) : r.orcid = k]
        updated == {found[k] : k \in DOMAIN found}
    IN (names (-) SetToBag(updated)) (+) FetchedNames(keys)

\* build_researcher_names_cache(ror_id), as the third step of
\* cache_full_build or called by cache_profiles_build or by the command
\* sync-researcher-names. started, kept: whether the batch of fetches had
\* a member URL and a token, and the persons whose fetch gave a record.
\* commitOk: the final commit succeeds; otherwise it is rolled back. (The
\* commit after every 500 records does not occur with so few persons.)
NamesSync(ror, started, kept, commitOk) ==
    /\ rb_pc \in {"idle", "names"}
    /\ rb_pc = "names" => ror = RebuiltRor
    /\ kept \subseteq AllOrcids(ror)
    /\ ~started => kept = {}
    /\ AllOrcids(ror) = {} => (started /\ commitOk)
    /\ db_names' = IF commitOk
                     THEN UpsertNames(db_names, ProfilesMap(kept, {}, started))
                     ELSE db_names
    /\ rb_pc' = "idle"
    /\ rb_caller' = "none"
    /\ UNCHANGED <<db_works, db_fundings, db_status, db_runs, upVars, rb_target,
                   rb_researchers, rb_failed, rb_todo, rb_buffer, rb_status_buffer,
                   rb_total, rb_committed, rb_written, rb_dropped, rb_flushesOk,
                   rb_last, rb_started, rb_purged>>

\* Nothing has been synced.
NoSync == [ror |-> "", asked |-> {}, kept |-> {}, committed |-> FALSE]

NsRest == ns_last = NoSync

\* One call of build_researcher_names_cache, with what it asked the batch
\* of fetches for and what became of it.
SyncCall(ror, started, kept, commitOk) ==
    /\ NamesSync(ror, started, kept, commitOk)
    /\ ns_last' = [ror |-> ror, asked |-> AllOrcids(ror), kept |-> kept,
                   committed |-> commitOk]

(***************************************************************************)
(* fetch_single_profile, get_all_profiles_concurrently:                    *)
(* orcid_service.py lines 274-304, 328-381                                 *)
(***************************************************************************)

\* Largest number of ids in one batch.
MaxIds == 3

\* max_workers, scaled down.
PoolWidth == 2

\* max_workers: int = 10
DefaultMaxWorkers == 10

\* The tokens the credential cache hands out one after the other.
MaxTokens == 2

\* The ids of a batch of n: the callers pass lists without repetition.
IdsOf(n) == 1..n

\* What safe_get gives a worker: None, a 404 response, or a 200 response
\* whose body is a record, an empty object, or not JSON.
FetchAnswers == {"none", "404", "200 record", "200 empty", "200 not json"}

\* fetch_single_profile(orcid_id, base_url, token): the record, {} or an
\* exception of response.json().
FetchSingleProfile(answer) ==
    CASE answer = "200 record" -> "record"
      [] answer = "200 not json" -> "raises"
      [] OTHER -> "empty"

\* What the call has given its caller so far: nothing yet, a map (its
\* keys), or an exception.
NotReturnedYet == [kind |-> "none", keys |-> {}]
RaisedOut == [kind |-> "raised", keys |-> {}]
MapRet(keys) == [kind |-> "map", keys |-> keys]

\* A mutation of Collect: the exception of a worker is not caught.
Collect_Propagates(results, oid, result) ==
    [results |-> IF result = "record" THEN results \cup {oid} ELSE results,
     raised |-> result = "raises"]

\* The body of `for future in as_completed(...)`: future.result() inside
\* try/except, `if profile_data: results[oid] = profile_data`.
Collect(results, oid, result) ==
    [results |-> IF result = "record" THEN results \cup {oid} ELSE results,
     raised |-> FALSE]

\* The loop over as_completed ends when every future has been yielded.
AllHandled(ids, collected) == collected = ids

\* Leaving `with ThreadPoolExecutor(...)` waits until no task is queued or
\* running.
PoolDrained(ids, task) == \A i \in ids : task[i] \notin {"queued", "running"}

\* A mutation of BatchOver: the function returns once one future has been
\* handled, without waiting for the pool.
BatchOver_AfterFirst(ids, collected, task) == ids = {} \/ collected # {}

\* When the function gets to `return results`.
BatchOver(ids, collected, task) ==
    AllHandled(ids, collected) /\ PoolDrained(ids, task)

GaRest ==
    /\ ga_pc = "idle"
    /\ ga_ids = {}
    /\ ga_task = <<>>
    /\ ga_result = <<>>
    /\ ga_fetches = <<>>
    /\ ga_collected = {}
    /\ ga_results = {}
    /\ ga_ret = NotReturnedYet
    /\ ga_token = 0
    /\ ga_cache = 1
    /\ ga_used = <<>>
    /\ ga_resolved = <<>>

\* A mutation of WorkerLookup: the worker asks the credential cache.
WorkerLookup_FromCache(i, argToken, cacheToken) ==
    [token |-> cacheToken, resolved |-> <<i>>]

\* The token of the request of fetch_single_profile(orcid_id, base_url,
\* token), and the lookups of configuration or credential cache it makes.
WorkerLookup(i, argToken, cacheToken) ==
    [token |-> argToken, resolved |-> <<>>]

\* A mutation of WorkerFree: the pool starts a thread for every task.
WorkerFree_Always(running, width) == TRUE

\* ThreadPoolExecutor(max_workers): a queued task is started only while
\* fewer than max_workers tasks are running.
WorkerFree(running, width) == running < width

\* get_all_profiles_concurrently(orcid_ids) up to the submission of the
\* tasks. memberUrl, token: whether the configuration has the member URL
\* and get_client_credentials_token gave a token.
GaCall(n, memberUrl, token) ==
    /\ ga_pc = "idle"
    /\ ga_ids' = IdsOf(n)
    /\ ga_fetches' = [i \in IdsOf(n) |-> 0]
    /\ ga_result' = [i \in IdsOf(n) |-> "pending"]
    /\ ga_collected' = {}
    /\ ga_results' = {}
    /\ ga_token' = IF token THEN ga_cache ELSE 0
    /\ ga_used' = [i \in IdsOf(n) |-> 0]
    /\ ga_resolved' = <<"caller">>
    /\ UNCHANGED ga_cache
    /\ IF ~memberUrl \/ ~token
         THEN /\ ga_pc' = "returned"
              /\ ga_ret' = MapRet({})
              /\ ga_task' = [i \in IdsOf(n) |-> "not submitted"]
         ELSE /\ ga_pc' = "running"
              /\ ga_ret' = NotReturnedYet
              /\ ga_task' = [i \in IdsOf(n) |-> "queued"]

\* A free worker of the pool takes the oldest queued task and starts
\* fetch_single_profile.
GaWorkerStart(i) ==
    /\ ga_pc = "running"
    /\ i \in ga_ids
    /\ ga_task[i] = "queued"
    /\ \A j \in ga_ids : j < i => ga_task[j] # "queued"
    /\ WorkerFree(Cardinality({j \in ga_ids : ga_task[j] = "running"}), PoolWidth)
    /\ ga_task' = [ga_task EXCEPT ![i] = "running"]
    /\ ga_fetches' = [ga_fetches EXCEPT ![i] = @ + 1]
    /\ LET w == WorkerLookup(i, ga_token, ga_cache) IN
       /\ ga_used' = [ga_used EXCEPT ![i] = w.token]
       /\ ga_resolved' = ga_resolved \o w.resolved
    /\ UNCHANGED <<ga_pc, ga_ids, ga_result, ga_collected, ga_results, ga_ret,
                   ga_token, ga_cache>>

\* The worker's fetch ends.
GaWorkerEnd(i, answer) ==
    /\ ga_pc = "running"
    /\ i \in ga_ids
    /\ ga_task[i] = "running"
    /\ ga_task' = [ga_task EXCEPT ![i] = "done"]
    /\ ga_result' = [ga_result EXCEPT ![i] = FetchSingleProfile(answer)]
    /\ UNCHANGED <<ga_pc, ga_ids, ga_fetches, ga_collected, ga_results, ga_ret,
                   ga_token, ga_cache, ga_used, ga_resolved>>

\* as_completed yields a finished future and the loop body handles it. An
\* exception that leaves the loop leaves the `with` block, which waits for
\* the pool, and then the function.
GaCollect(i) ==
    /\ ga_pc = "running"
    /\ i \in ga_ids \ ga_collected
    /\ ga_task[i] = "done"
    /\ LET c == Collect(ga_results, i, ga_result[i]) IN
       /\ ga_results' = c.results
       /\ ga_collected' = ga_collected \cup {i}
       /\ IF c.raised
            THEN ga_pc' = "returned" /\ ga_ret' = RaisedOut
            ELSE UNCHANGED <<ga_pc, ga_ret>>
    /\ UNCHANGED <<ga_ids, ga_task, ga_result, ga_fetches, ga_token, ga_cache, ga_used,
                   ga_resolved>>

\* The loop has ended: the `with` block is left and `results` returned.
GaReturn ==
    /\ ga_pc = "running"
    /\ BatchOver(ga_ids, ga_collected, ga_task)
    /\ ga_pc' = "returned"
    /\ ga_ret' = MapRet(ga_results)
    /\ UNCHANGED <<ga_ids, ga_task, ga_result, ga_fetches, ga_collected, ga_results,
                   ga_token, ga_cache, ga_used, ga_resolved>>

\* While the batch runs the cached token expires and some caller of
\* get_client_credentials_token stores a new one.
GaTokenExpires ==
    /\ ga_pc = "running"
    /\ ga_cache < MaxTokens
    /\ ga_cache' = ga_cache + 1
    /\ UNCHANGED <<ga_pc, ga_ids, ga_task, ga_result, ga_fetches, ga_collected,
                   ga_results, ga_ret, ga_token, ga_used, ga_resolved>>

(***************************************************************************)
(* fetch_grid_from_ror: ror_service.py lines 26-100;                       *)
(* ensure_and_heal_grid_for_ror: cache_service.py lines 64-110             *)
(***************************************************************************)

Users == {"u1", "u2"}

\* Values of a grid_id column or variable: NULL / None, the empty string,
\* an empty list, or an identifier.
NoneValue == "<None>"
EmptyList == "<[]>"
LocalGrids == {NoneValue, "", "grid.1", "grid.2"}
RegistryGrid == "grid.9"

\* Python truthiness of such a value.
Truthy(x) == x \notin {NoneValue, "", EmptyList}

\* The rows of the users table: u1 belongs to the rebuilt institution.
UserTables ==
    {t \in [Users -> [ror : {RebuiltRor, OtherRor}, grid : LocalGrids]] :
        /\ t["u1"].ror = RebuiltRor
        /\ t["u1"].grid # "grid.2"}

\* The legacy entry of a response body: the entry of type 'grid' of the
\* list shape or the value of key 'GRID' of the map shape, with its
\* 'preferred' value (None when absent or null) and its 'all' list (hasAll:
\* the key is there). present: the body has such an entry.
FirstOfAll == "grid.8"
GridEntries ==
    {[present |-> TRUE, preferred |-> p, hasAll |-> a[1], all |-> a[2]] :
        p \in {NoneValue, RegistryGrid},
        a \in {<<FALSE, <<>>>>, <<TRUE, <<>>>>, <<TRUE, <<FirstOfAll>>>>}}
NoEntry == [present |-> FALSE, preferred |-> NoneValue, hasAll |-> FALSE, all |-> <<>>]

\* What the ROR API answers to the lookup: no answer, a non-200 status, or
\* a 200 whose body is not JSON, has no external_ids, or has them as a
\* list or as a map.
RorAnswers ==
    [kind : {"network error", "404", "500", "200 not json", "200 no external_ids"},
     entry : {NoEntry}]
      \cup [kind : {"200 list", "200 dict"}, entry : GridEntries \cup {NoEntry}]

\* The answers drawn when the lookup is one step of a longer flow.
LookupAnswers ==
    {a \in RorAnswers :
        \/ a.entry = NoEntry /\ a.kind # "200 no external_ids"
        \/ a.entry = [present |-> TRUE, preferred |-> RegistryGrid,
                      hasAll |-> TRUE, all |-> <<FirstOfAll>>]
        \/ a.kind = "200 list" /\ a.entry = [present |-> TRUE, preferred |-> NoneValue,
                                             hasAll |-> TRUE, all |-> <<>>]}

\* x.get('preferred') or (x.get('all') and x['all'][0])
ParseEntry(e) ==
    IF Truthy(e.preferred) THEN e.preferred
    ELSE IF ~e.hasAll THEN NoneValue
    ELSE IF e.all = <<>> THEN EmptyList
    ELSE e.all[1]

\* The value fetch_grid_from_ror returns for an answer it does not raise on.
\*  - list: the first entry of type 'grid' is parsed; without one the loop
\*    ends and None is returned at the end of the function;
\*  - map: external_ids.get('GRID', {}) is parsed.
ParseBody(answer) ==
    CASE answer.kind = "200 list" ->
            IF answer.entry.present THEN ParseEntry(answer.entry) ELSE NoneValue
      [] answer.kind = "200 dict" -> ParseEntry(answer.entry)
      [] OTHER -> NoneValue

\* A mutation of FetchGridFromRor: a network error is not caught.
FetchGridFromRor_NetworkErrorEscapes(answer) ==
    [raised |-> answer.kind = "network error", grid |-> ParseBody(answer)]

\* fetch_grid_from_ror(ror_id) for a non-empty ror_id: whether it raises,
\* and the value it returns.
FetchGridFromRor(answer) == [raised |-> FALSE, grid |-> ParseBody(answer)]

\* The users the first query of ensure_and_heal_grid_for_ror matches.
WithGrid(users, ror) ==
    {u \in Users : users[u].ror = ror /\ users[u].grid # NoneValue /\ users[u].grid # ""}

\* A mutation of WithoutGrid: every user of the institution is updated.
WithoutGrid_AllOfRor(users, ror) == {u \in Users : users[u].ror = ror}

\* The users the second query matches.
WithoutGrid(users, ror) ==
    {u \in Users : users[u].ror = ror /\ users[u].grid \in {NoneValue, ""}}

\* A mutation of NeedsLookup: the registry is asked in every case.
NeedsLookup_Always(grid) == TRUE

\* if not grid_id: grid_id = fetch_grid_from_ror(ror_id)
NeedsLookup(grid) == ~Truthy(grid)

GhRest ==
    /\ db_users = [u \in Users |-> [ror |-> RebuiltRor, grid |-> NoneValue]]
    /\ gh_pc = "idle"
    /\ gh_ror = ""
    /\ gh_ret = NoneValue
    /\ gh_requests = <<>>
    /\ gh_before = db_users
    /\ gh_committed = TRUE

GhInit ==
    /\ db_users \in UserTables
    /\ gh_pc = "idle"
    /\ gh_ror = ""
    /\ gh_ret = NoneValue
    /\ gh_requests = <<>>
    /\ gh_before = db_users
    /\ gh_committed = TRUE

\* ensure_and_heal_grid_for_ror(ror_id). first: the row .first() gives when
\* a row matches; answer: the ROR API's answer if it is asked; commitOk:
\* whether the commit of the propagation succeeds.
GhEnsure(ror, first, answer, commitOk) ==
    /\ gh_pc = "idle"
    /\ gh_ror' = ror
    /\ gh_before' = db_users
    /\ IF ror = ""
         THEN /\ gh_ret' = NoneValue
              /\ gh_pc' = "returned"
              /\ gh_committed' = TRUE
              /\ UNCHANGED <<db_users, gh_requests>>
         ELSE LET matching == WithGrid(db_users, ror)
                  local == IF matching = {} THEN NoneValue ELSE db_users[first].grid
                  asked == NeedsLookup(local)
                  looked == FetchGridFromRor(answer)
                  grid == IF asked THEN looked.grid ELSE local
                  healed == [u \in Users |->
                               IF u \in WithoutGrid(db_users, ror)
                                 THEN [db_users[u] EXCEPT !.grid = grid]
                                 ELSE db_users[u]]
              IN
              /\ matching # {} => first \in matching
              /\ gh_requests' = IF asked
                                  THEN Append(gh_requests, [ror |-> ror, answer |-> answer])
                                  ELSE gh_requests
              /\ IF asked /\ looked.raised
                   THEN /\ gh_pc' = "raised"
                        /\ gh_ret' = NoneValue
                        /\ gh_committed' = TRUE
                        /\ UNCHANGED db_users
                   ELSE /\ gh_pc' = "returned"
                        /\ gh_ret' = grid
                        /\ IF Truthy(grid) /\ WithoutGrid(db_users, ror) # {}
                             THEN /\ db_users' = IF commitOk THEN healed ELSE db_users
                                  /\ gh_committed' = commitOk
                             ELSE /\ commitOk
                                  /\ gh_committed' = TRUE
                                  /\ UNCHANGED db_users

\* A mutation of HasGridArg: the legacy clause is added for any value.
HasGridArg_Always(grid) == TRUE

\* if grid_id: query_parts.append(...)
HasGridArg(grid) == Truthy(grid)

\* " OR ".join(query_parts)
RawQuery(parts) ==
    IF parts = {"ror-org-id", "grid-org-id"} THEN <<"ror-org-id", "OR", "grid-org-id">>
    ELSE IF parts = {"ror-org-id"} THEN <<"ror-org-id">>
    ELSE IF parts = {"grid-org-id"} THEN <<"grid-org-id">>
    ELSE <<>>

\* The builder's call of list_orcids_for_institution(ror_id, grid_id,
\* base_url, headers) with the grid id ensure_and_heal_grid_for_ror gave;
\* every handler passes a base_url.
GhSearch ==
    /\ gh_pc = "returned"
    /\ gh_pc' = "searching"
    /\ LoCall([ror |-> gh_ror # "", grid |-> HasGridArg(gh_ret), url |-> TRUE])
    /\ UNCHANGED <<db_users, gh_ror, gh_ret, gh_requests, gh_before, gh_committed>>

\* The function has returned and is called again later: the requests of
\* the next call are counted from none.
GhAgain ==
    /\ gh_pc = "returned"
    /\ gh_pc' = "idle"
    /\ gh_requests' = <<>>
    /\ UNCHANGED <<db_users, gh_ror, gh_ret, gh_before, gh_committed>>

(***************************************************************************)
(* Specifications                                                          *)
(***************************************************************************)

\* safe_get alone: one call, the upstream's answers drawn at the call.
InitGet == SgInit /\ TkRest /\ LoRest /\ ClRest /\ BuildRest /\ GaRest /\ GhRest /\ NsRest

NextGet ==
    \/ \E r \in 0..MaxRetries : \E sc \in [1..(r + 1) -> Outcomes] :
          SgCall(r, sc) /\ UNCHANGED <<tkVars, loVars, clVars, buildVars, gaVars, ghVars, nsVars>>
    \/ SgAttempt /\ UNCHANGED <<tkVars, loVars, clVars, buildVars, gaVars, ghVars, nsVars>>

SpecGet == InitGet /\ [][NextGet]_vars

\* The credential cache: every thread calls get_client_credentials_token once.
InitToken == TkInit /\ SgInit /\ LoRest /\ ClRest /\ BuildRest /\ GaRest /\ GhRest /\ NsRest

NextToken ==
    \/ \E t \in Threads : TkCall(t) /\ UNCHANGED <<sgVars, loVars, clVars, buildVars, gaVars, ghVars, nsVars>>
    \/ \E t \in Threads : TkFastReadToken(t) /\ UNCHANGED <<sgVars, loVars, clVars, buildVars, gaVars, ghVars, nsVars>>
    \/ \E t \in Threads : TkFastReadExpiry(t) /\ UNCHANGED <<sgVars, loVars, clVars, buildVars, gaVars, ghVars, nsVars>>
    \/ \E t \in Threads : TkFastReturn(t) /\ UNCHANGED <<sgVars, loVars, clVars, buildVars, gaVars, ghVars, nsVars>>
    \/ \E t \in Threads : TkLockedCheck(t) /\ UNCHANGED <<sgVars, loVars, clVars, buildVars, gaVars, ghVars, nsVars>>
    \/ \E t \in Threads : \E a \in TokenAnswers : TkResponse(t, a) /\ UNCHANGED <<sgVars, loVars, clVars, buildVars, gaVars, ghVars, nsVars>>
    \/ \E t \in Threads : TkStoreExpiry(t) /\ UNCHANGED <<sgVars, loVars, clVars, buildVars, gaVars, ghVars, nsVars>>
    \/ TkTick /\ UNCHANGED <<sgVars, loVars, clVars, buildVars, gaVars, ghVars, nsVars>>

SpecToken == InitToken /\ [][NextToken]_vars

\* The registry search: one call, the upstream's pages drawn per request.
InitSearch == LoInit /\ SgInit /\ TkRest /\ ClRest /\ BuildRest /\ GaRest /\ GhRest /\ NsRest

NextSearch ==
    \/ \E a \in [ror : BOOLEAN, grid : BOOLEAN, url : BOOLEAN] :
          LoCall(a) /\ UNCHANGED <<sgVars, tkVars, clVars, buildVars, gaVars, ghVars, nsVars>>
    \/ \E a \in PageAnswers : LoPage(a) /\ UNCHANGED <<sgVars, tkVars, clVars, buildVars, gaVars, ghVars, nsVars>>

SpecSearch == InitSearch /\ [][NextSearch]_vars

\* The same call with its loop running on: the body of `while True` is
\* straight-line code of one thread, and its page request returns, since
\* safe_get passes a timeout to every request and gives up after its
\* retries.
SpecSearchLive ==
    /\ SpecSearch
    /\ WF_vars(\E a \in PageAnswers :
                  LoPage(a) /\ UNCHANGED <<sgVars, tkVars, clVars, buildVars, gaVars,
                                           ghVars, nsVars>>)

\* The affiliation classifier: the profile and the trusted ids are drawn,
\* then classified.
InitClassify == ClInit /\ SgInit /\ TkRest /\ LoRest /\ BuildRest /\ GaRest /\ GhRest /\ NsRest

NextClassify == ClClassify /\ UNCHANGED <<sgVars, tkVars, loVars, buildVars, gaVars, ghVars, nsVars>>

SpecClassify == InitClassify /\ [][NextClassify]_vars

\* The cache rebuilds of one institution, one invocation after another,
\* against a registry that may change in between.
otherVars == <<sgVars, tkVars, loVars, clVars, gaVars, ghVars, nsVars>>

InitBuild == BuildInit /\ SgInit /\ TkRest /\ LoRest /\ ClRest /\ GaRest /\ GhRest /\ NsRest

NextBuild ==
    \/ \E pop \in SUBSET Persons : \E docs \in Docs :
          UpstreamChange(pop, docs) /\ UNCHANGED otherVars
    \/ \E c \in Callers : \E t \in Targets : RbStart(c, t) /\ UNCHANGED otherVars
    \/ \E c \in Callers : \E t \in Targets \cup {"other"} : \E why \in {"no token", "invalid target"} :
          RbRefuse(c, t, why) /\ UNCHANGED otherVars
    \/ \E found \in SUBSET Persons : RbDiscover(found) /\ UNCHANGED otherVars
    \/ \E ok \in BOOLEAN : RbPurge(ok) /\ UNCHANGED otherVars
    \/ \E failed \in SUBSET Persons : \E started \in BOOLEAN :
          RbFetch(failed, started) /\ UNCHANGED otherVars
    \/ \E p \in Persons : \E eOk, sOk \in BOOLEAN :
          RbProcess(p, eOk, sOk) /\ UNCHANGED otherVars
    \/ \E eOk, sOk \in BOOLEAN : RbFinish(eOk, sOk) /\ UNCHANGED otherVars
    \/ \E ror \in {RebuiltRor, OtherRor} : \E started, commitOk \in BOOLEAN :
       \E kept \in SUBSET Persons :
          NamesSync(ror, started, kept, commitOk) /\ UNCHANGED otherVars

SpecBuild == InitBuild /\ [][NextBuild]_vars

\* One batch of concurrent profile fetches.
InitFetch == GaRest /\ SgInit /\ TkRest /\ LoRest /\ ClRest /\ BuildRest /\ GhRest /\ NsRest

restOfFetch == <<sgVars, tkVars, loVars, clVars, buildVars, ghVars, nsVars>>

NextFetch ==
    \/ \E n \in 0..MaxIds : \E memberUrl, token \in BOOLEAN :
          GaCall(n, memberUrl, token) /\ UNCHANGED restOfFetch
    \/ \E i \in 1..MaxIds : GaWorkerStart(i) /\ UNCHANGED restOfFetch
    \/ \E i \in 1..MaxIds : \E a \in FetchAnswers : GaWorkerEnd(i, a) /\ UNCHANGED restOfFetch
    \/ \E i \in 1..MaxIds : GaCollect(i) /\ UNCHANGED restOfFetch
    \/ GaReturn /\ UNCHANGED restOfFetch
    \/ GaTokenExpires /\ UNCHANGED restOfFetch

SpecFetch == InitFetch /\ [][NextFetch]_vars

\* orcid_ids, the list the builder passes to get_all_profiles_concurrently.
OrcidIds(researchers) ==
    CHOOSE q \in [1..Cardinality(researchers) -> researchers] :
        {q[i] : i \in DOMAIN q} = researchers

\* A mutation of FetchReturned: the builder goes on once the tasks are
\* submitted.
FetchReturned_Dispatched == ga_pc # "idle"

\* profiles_map = get_all_profiles_concurrently(...): the builder goes on
\* when the call has returned.
FetchReturned == ga_pc = "returned"

\* The builder calls get_all_profiles_concurrently(orcid_ids, max_workers=10).
BtDispatch(memberUrl, token) ==
    /\ rb_pc = "fetch"
    /\ GaCall(Cardinality(rb_researchers), memberUrl, token)
    /\ UNCHANGED buildVars

\* The call has returned profiles_map and the builder goes on with it.
BtResume ==
    /\ rb_pc = "fetch"
    /\ FetchReturned
    /\ LET ids == OrcidIds(rb_researchers)
           keys == {ids[i] : i \in ga_ret.keys}
           started == \A i \in ga_ids : ga_task[i] # "not submitted"
       IN RbFetch(rb_researchers \ keys, started)
    /\ UNCHANGED gaVars

\* One invocation of a builder by rebuild_cache, rebuild_caches or
\* cache_fundings_build, with the batch of profile fetches at the level of
\* its worker tasks.
InitBatch == BuildInit /\ GaRest /\ SgInit /\ TkRest /\ LoRest /\ ClRest /\ GhRest /\ NsRest

restOfBatch == <<sgVars, tkVars, loVars, clVars, ghVars, nsVars>>

NextBatch ==
    \/ \E c \in Callers \ {"cache_full_build"} : \E t \in Targets :
          rb_last.n = 0 /\ RbStart(c, t) /\ UNCHANGED <<gaVars, restOfBatch>>
    \/ \E found \in SUBSET Persons : RbDiscover(found) /\ UNCHANGED <<gaVars, restOfBatch>>
    \/ \E ok \in BOOLEAN : RbPurge(ok) /\ UNCHANGED <<gaVars, restOfBatch>>
    \/ \E memberUrl, token \in BOOLEAN :
          BtDispatch(memberUrl, token) /\ UNCHANGED restOfBatch
    \/ \E i \in 1..MaxIds :
          GaWorkerStart(i) /\ UNCHANGED <<buildVars, restOfBatch>>
    \/ \E i \in 1..MaxIds : \E a \in FetchAnswers :
          GaWorkerEnd(i, a) /\ UNCHANGED <<buildVars, restOfBatch>>
    \/ \E i \in 1..MaxIds : GaCollect(i) /\ UNCHANGED <<buildVars, restOfBatch>>
    \/ GaReturn /\ UNCHANGED <<buildVars, restOfBatch>>
    \/ BtResume /\ UNCHANGED restOfBatch
    \/ \E p \in Persons : \E eOk, sOk \in BOOLEAN :
          RbProcess(p, eOk, sOk) /\ UNCHANGED <<gaVars, restOfBatch>>
    \/ \E eOk, sOk \in BOOLEAN : RbFinish(eOk, sOk) /\ UNCHANGED <<gaVars, restOfBatch>>

SpecBatch == InitBatch /\ [][NextBatch]_vars

\* The discovery phase of a builder: the legacy id is ensured, then the
\* registry is searched.
InitDiscover == GhInit /\ LoRest /\ SgInit /\ TkRest /\ ClRest /\ BuildRest /\ GaRest /\ NsRest

restOfDiscover == <<sgVars, tkVars, clVars, buildVars, gaVars, nsVars>>

NextDiscover ==
    \/ \E ror \in {RebuiltRor, ""} : \E first \in Users : \E a \in LookupAnswers :
       \E commitOk \in BOOLEAN :
          GhEnsure(ror, first, a, commitOk) /\ UNCHANGED <<loVars, restOfDiscover>>
    \/ GhSearch /\ UNCHANGED restOfDiscover
    \/ \E a \in PageAnswers :
          gh_pc = "searching" /\ LoPage(a) /\ UNCHANGED <<ghVars, restOfDiscover>>

SpecDiscover == InitDiscover /\ [][NextDiscover]_vars

\* The affiliation classifier on profiles with absent or null parts.
InitIncomplete ==
    /\ cl_pc = "input"
    /\ cl_profile \in IncompleteProfiles
    /\ cl_trusted \in TrustedLists
    /\ cl_managed = FALSE
    /\ FpRest /\ SgInit /\ TkRest /\ LoRest /\ BuildRest /\ GaRest /\ GhRest /\ NsRest

NextIncomplete ==
    ClClassifyIncomplete /\ UNCHANGED <<sgVars, tkVars, loVars, buildVars, gaVars, ghVars, nsVars>>

SpecIncomplete == InitIncomplete /\ [][NextIncomplete]_vars

\* Syncs of the names over caches of works and fundings that rebuilds have
\* filled, and a researcher_cache with at most one row per person (orcid is
\* its primary key).
InitNames ==
    /\ db_works \in {SetToBag(rows) : rows \in SUBSET
          {[ror |-> RebuiltRor, orcid |-> "p1", item |-> 1],
           [ror |-> RebuiltRor, orcid |-> "p2", item |-> 1],
           [ror |-> OtherRor, orcid |-> "p2", item |-> 1]}}
    /\ db_fundings \in {SetToBag(rows) : rows \in SUBSET
          {[ror |-> RebuiltRor, orcid |-> "p1", item |-> 1],
           [ror |-> OtherRor, orcid |-> "p1", item |-> 1]}}
    /\ db_names \in {SetToBag(rows) : rows \in
          {r \in SUBSET [orcid : Persons, name : {"stale"}] : TRUE}}
    /\ db_status = EmptyBag
    /\ db_runs = <<>>
    /\ up_pop = {}
    /\ up_docs \in {d \in Docs : \A p \in Persons : d[p].works = 1}
    /\ up_changed = FALSE
    /\ rb_pc = "idle"
    /\ rb_caller = "none"
    /\ rb_target = "works"
    /\ rb_researchers = {}
    /\ rb_failed = {}
    /\ rb_todo = {}
    /\ rb_buffer = EmptyBag
    /\ rb_status_buffer = EmptyBag
    /\ rb_total = 0
    /\ rb_committed = 0
    /\ rb_written = EmptyBag
    /\ rb_dropped = NothingDropped
    /\ rb_flushesOk = TRUE
    /\ rb_last = NoRun
    /\ rb_started = TRUE
    /\ rb_purged = FALSE
    /\ NsRest /\ SgInit /\ TkRest /\ LoRest /\ ClRest /\ GaRest /\ GhRest

NextNames ==
    \E ror \in {RebuiltRor, OtherRor} : \E started, commitOk \in BOOLEAN :
    \E kept \in SUBSET Persons :
       SyncCall(ror, started, kept, commitOk)
          /\ UNCHANGED <<sgVars, tkVars, loVars, clVars, gaVars, ghVars>>

SpecNames == InitNames /\ [][NextNames]_vars

\* One record on its way from the API through fetch_single_profile to the
\* loop body of a builder.
InitRecord ==
    FpInit /\ ClIdle /\ SgInit /\ TkRest /\ LoRest /\ BuildRest /\ GaRest /\ GhRest /\ NsRest

restOfRecord ==
    <<cl_pc, cl_profile, cl_trusted, cl_managed, sgVars, tkVars, loVars, buildVars,
      gaVars, ghVars, nsVars>>

NextRecord ==
    \/ \E ok \in BOOLEAN : FpFetch(ok) /\ UNCHANGED restOfRecord
    \/ \E t \in {"works", "fundings"} : \E trusted \in TrustedLists :
          FpProcess(t, trusted) /\ UNCHANGED restOfRecord

SpecRecord == InitRecord /\ [][NextRecord]_vars

\* Calls of ensure_and_heal_grid_for_ror, one after another, for the
\* institutions of the users table and for one without users.
InitHeal == GhInit /\ LoRest /\ SgInit /\ TkRest /\ ClRest /\ BuildRest /\ GaRest /\ NsRest

NextHeal ==
    \/ \E ror \in {RebuiltRor, OtherRor, ""} : \E first \in Users : \E a \in RorAnswers :
       \E commitOk \in BOOLEAN :
          GhEnsure(ror, first, a, commitOk) /\ UNCHANGED <<loVars, restOfDiscover>>
    \/ GhAgain /\ UNCHANGED <<loVars, restOfDiscover>>

SpecHeal == InitHeal /\ [][NextHeal]_vars

(***************************************************************************)
(* Claims about the legacy identifier and the discovery of persons         *)
(***************************************************************************)

\* The answers of the ROR API that are failures of the lookup.
LookupFailures == {"network error", "404", "500"}

\* The call of ensure_and_heal_grid_for_ror asked the ROR API and got a.
AskedAndGot(a) == gh_requests # <<>> /\ gh_requests[Len(gh_requests)].answer.kind = a

\* C16: when no local record of the institution carries a legacy id and the
\* ROR API answers not-found, the builder still searches the registry, with
\* a query made of the primary-identifier clause alone (no legacy clause,
\* no OR), and the search returns the persons that query matched.
C16_SearchesWithRorClauseAlone ==
    (/\ gh_pc \in {"returned", "searching"}
     /\ gh_ror # ""
     /\ WithGrid(gh_before, gh_ror) = {}
     /\ AskedAndGot("404"))
    => /\ ENABLED GhSearch \/ gh_pc = "searching"
       /\ gh_pc = "searching" =>
            /\ lo_query = {"ror-org-id"}
            /\ RawQuery(lo_query) = <<"ror-org-id">>
            /\ lo_pc \in {"page", "done"}
            /\ lo_pc = "done" =>
                 /\ Len(lo_requests) >= 1
                 /\ {Strip(lo_ret[i].id) : i \in 1..Len(lo_ret)} = lo_seen

C16_Witness ==
    /\ gh_pc = "searching"
    /\ gh_ror # ""
    /\ WithGrid(gh_before, gh_ror) = {}
    /\ AskedAndGot("404")
    /\ lo_pc = "done"
    /\ Len(lo_ret) = 2

\* C17: when the lookup at the ROR API fails (network error, not-found,
\* another non-200 status), ensure_and_heal_grid_for_ror does not raise,
\* returns None and leaves every row of the users table as it was.
C17_FailedLookupGivesNone ==
    /\ gh_pc # "raised"
    /\ (\E a \in LookupFailures : AskedAndGot(a)) =>
          /\ gh_ret = NoneValue
          /\ db_users = gh_before

C17_Witness ==
    /\ gh_pc = "returned"
    /\ AskedAndGot("network error")
    /\ WithoutGrid(db_users, gh_ror) # {}

\* C18: when a local record of the institution carries a non-empty legacy
\* id, ensure_and_heal_grid_for_ror returns the id of such a record and
\* sends no request to the ROR API.
C18_LocalGridReused ==
    (gh_pc # "idle" /\ gh_ror # "" /\ WithGrid(gh_before, gh_ror) # {})
    => /\ gh_requests = <<>>
       /\ gh_pc # "raised"
       /\ gh_ret \in {gh_before[u].grid : u \in WithGrid(gh_before, gh_ror)}

C18_Witness ==
    /\ gh_pc = "returned"
    /\ WithGrid(gh_before, gh_ror) # {}
    /\ WithoutGrid(gh_before, gh_ror) # {}
    /\ WithoutGrid(db_users, gh_ror) = {}
    /\ gh_requests = <<>>

\* A call of ensure_and_heal_grid_for_ror that returns.
HealCall == gh_pc = "idle" /\ gh_pc' = "returned"

\* The call before this one was for the same institution and resolved an id.
SecondCall ==
    /\ HealCall
    /\ gh_ror' = gh_ror
    /\ gh_ror # ""
    /\ Truthy(gh_ret)

\* The rows of the institution all carry a non-empty legacy id.
AllCarryGrid(users, ror) ==
    \A u \in Users : users[u].ror = ror => Truthy(users[u].grid)

\* The call leaves alone the rows that had an id and the rows of other
\* institutions.
KeepsOtherRows ==
    \A u \in Users :
        (Truthy(db_users[u].grid) \/ db_users[u].ror # gh_ror') =>
            db_users'[u] = db_users[u]

\* The institution has a row, and its rows carry one and the same id.
OneLocalGrid(users, ror) ==
    /\ WithGrid(users, ror) # {}
    /\ \A u, v \in WithGrid(users, ror) : users[u].grid = users[v].grid

PreferredElseFirst(e) ==
    IF e.preferred # NoneValue THEN e.preferred
    ELSE IF e.hasAll /\ e.all # <<>> THEN e.all[1]
    ELSE NoneValue

\* The last lookup got a 200 answer with external_ids.
LookedUpIds ==
    /\ gh_pc = "returned"
    /\ gh_requests # <<>>
    /\ gh_requests[Len(gh_requests)].ror = gh_ror
    /\ WithGrid(gh_before, gh_ror) = {}
    /\ gh_requests[Len(gh_requests)].answer.kind \in {"200 list", "200 dict"}

\* C30: for both shapes of external_ids fetch_grid_from_ror returns
\* 'preferred' when present, otherwise the first element of 'all', and null
\* when neither is there: the same result in both shapes.
C30_PreferredElseFirstOfAll ==
    LookedUpIds =>
        gh_ret = PreferredElseFirst(gh_requests[Len(gh_requests)].answer.entry)

\* The same, for the entries whose 'all' is not an empty list or whose
\* 'preferred' is there.
C30_ExceptEmptyAll ==
    LET e == gh_requests[Len(gh_requests)].answer.entry
    IN  LookedUpIds /\ ~(e.hasAll /\ e.all = <<>> /\ e.preferred = NoneValue) =>
            gh_ret = PreferredElseFirst(e)

\* What the classifier and the flattener of the target make of an
\* activities subtree.
OfContent(content, target, trusted) ==
    [target |-> target, trusted |-> trusted, skipped |-> FALSE,
     managed |-> target = "works"
                   /\ ExtractStatus([activities_summary |-> content.sections], trusted),
     rows |-> IF target = "works" THEN content.works ELSE content.fundings]

\* C34: a record that delivers its activities subtree under either of the
\* two upstream names is classified, and flattened into rows, in the same
\* way: whatever the name, the loop body yields the classification and the
\* rows of the subtree.
C34_SameUnderEitherKey ==
    (fp_pc = "done" /\ ~fp_data.empty) =>
        fp_out = OfContent(fp_doc.content, fp_out.target, fp_out.trusted)

\* The same, for the records that use the name 'activities-summary'.
C34_UnderActivitiesSummary ==
    (fp_pc = "done" /\ ~fp_data.empty /\ fp_doc.key = "activities-summary") =>
        fp_out = OfContent(fp_doc.content, fp_out.target, fp_out.trusted)

(***************************************************************************)
(* Claims about get_all_profiles_concurrently                              *)
(***************************************************************************)

\* C14: get_all_profiles_concurrently does not raise on a per-id failure;
\* the keys of the returned map are input ids, and an id is a key exactly
\* when its fetch produced a non-empty record.
C14_PartialMapNeverRaises ==
    ga_pc = "returned" =>
        /\ ga_ret.kind = "map"
        /\ ga_ret.keys \subseteq ga_ids
        /\ \A i \in ga_ids : i \in ga_ret.keys <=> ga_result[i] = "record"
        /\ \A i \in ga_ids : ga_task[i] \in {"done", "not submitted"}

C14_Witness ==
    /\ ga_pc = "returned"
    /\ ga_ids = 1..3
    /\ ga_result[1] = "raises"
    /\ ga_result[2] = "empty"
    /\ ga_result[3] = "record"
    /\ ga_ret = MapRet({3})

\* C15: when get_all_profiles_concurrently returns, no task is queued or
\* running, and every submitted id has been fetched exactly once.
C15_ReturnsAfterEveryFetch ==
    ga_pc = "returned" =>
        \A i \in ga_ids :
            /\ ga_task[i] \notin {"queued", "running"}
            /\ ga_task[i] = "done" <=> ga_fetches[i] = 1
            /\ ga_task[i] = "not submitted" <=> ga_fetches[i] = 0

C15_Witness ==
    /\ ga_pc = "returned"
    /\ Cardinality(ga_ids) > PoolWidth
    /\ \A i \in ga_ids : ga_task[i] = "done" /\ ga_fetches[i] = 1

\* The step in which the purge of a builder commits / fails to commit.
PurgeCommits == rb_pc = "purge" /\ rb_pc' = "fetch"
PurgeFails == rb_pc = "purge" /\ rb_pc' # "fetch" /\ rb_pc' # "purge"

\* A step that writes to a cache table / to any table: the committed
\* purge, or a change of the rows.
CacheWrite ==
    \/ PurgeCommits
    \/ <<db_works, db_status, db_fundings>>' # <<db_works, db_status, db_fundings>>
StorageWrite == PurgeCommits \/ dbVars' # dbVars

\* C22 as stated: every storage write of a rebuild comes after
\* get_all_profiles_concurrently has returned.
C22_WritesOnlyAfterFetchReturned == [][CacheWrite => ga_pc = "returned"]_vars

\* C22, amended: every storage write of a rebuild is made by the
\* orchestrator either before the batch of fetches is dispatched (the
\* purge, the 'running' row) or after get_all_profiles_concurrently has
\* returned; the steps of the worker tasks write nothing, so no write
\* happens while a task is queued or running.
C22_NoWriteDuringFetch ==
    [][StorageWrite =>
          /\ ga_pc \in {"idle", "returned"}
          /\ ga_pc' = ga_pc
          /\ \A i \in ga_ids : ga_task[i] \notin {"queued", "running"}]_vars

\* Rows have been written after a batch of two concurrent fetches.
C22_Witness ==
    /\ rb_pc = "process"
    /\ ga_pc = "returned"
    /\ Cardinality(ga_ids) = 2
    /\ \A i \in ga_ids : ga_task[i] = "done"
    /\ rb_written # EmptyBag
    /\ rb_todo # {}

\* C24: in one call of get_all_profiles_concurrently the configuration is
\* read and the token asked for once, by the calling thread and before
\* any task starts; every request of a worker carries that token, also
\* when the credential cache has a newer one by then, and no worker reads
\* the configuration or asks the credential cache.
C24_TokenResolvedOnceByCaller ==
    ga_pc # "idle" =>
        /\ ga_resolved = <<"caller">>
        /\ \A i \in ga_ids :
              /\ ga_task[i] \in {"running", "done"} => ga_used[i] = ga_token
              /\ ga_task[i] \in {"queued", "not submitted"} => ga_used[i] = 0

\* A task was started after the cached token had been replaced.
C24_Witness ==
    /\ ga_pc = "returned"
    /\ ga_cache # ga_token
    /\ Cardinality(ga_ids) >= 2
    /\ \A i \in ga_ids : ga_task[i] = "done" /\ ga_used[i] = ga_token

\* The tasks whose fetch is in progress.
FetchesInProgress == {i \in ga_ids : ga_task[i] = "running"}

\* C25: at every moment of a batch at most max_workers fetches are in
\* progress, however many ids were submitted.
C25_AtMostPoolWidthInProgress == Cardinality(FetchesInProgress) <= PoolWidth

\* The pool is full and a task waits.
C25_Witness ==
    /\ Cardinality(FetchesInProgress) = PoolWidth
    /\ \E i \in ga_ids : ga_task[i] = "queued"

(***************************************************************************)
(* Claims about the cache rebuilds                                         *)
(***************************************************************************)

\* The rows a Publications rebuild extracts from the records of a set of persons.
WorksOfPersons(people) ==
    SetToBag({[ror |-> RebuiltRor, orcid |-> p, item |-> k] :
                 p \in people, k \in 1..MaxItems}
             \cap {r \in [ror : {RebuiltRor}, orcid : Persons, item : 1..MaxItems] :
                     r.item <= up_docs[r.orcid].works})

\* The last completed invocation was a Publications rebuild, and the
\* registry is still as that rebuild saw it.
WorksRunDone ==
    /\ rb_pc = "idle" /\ rb_last.n >= 1 /\ rb_last.target = "works" /\ ~up_changed
    /\ rb_last.outcome = "returned"

\* C7: a Publications rebuild that directly follows another one for the same
\* institution, with the registry unchanged in between and every search,
\* fetch and flush of both succeeding, returns the count the first returned
\* and leaves the institution's Publication rows as the first left them.
C7_SecondRunReplaces ==
    [][(rb_last'.n = rb_last.n + 1 /\ rb_last'.repeat /\ rb_last'.target = "works")
         => (rb_last'.count = rb_last.count /\ rb_last'.rows = rb_last.rows)]_vars

C7_Witness ==
    /\ WorksRunDone
    /\ rb_last.n = 2
    /\ rb_last.repeat
    /\ rb_last.researchers = Persons
    /\ rb_last.count = MaxItems + 1
    /\ BagCardinality(rb_last.rows) = MaxItems + 1

\* C8: the total a builder returns is the sum of the counts of the flushes
\* of its entity that committed.
C8_ReturnedTotalIsCommittedSum ==
    (rb_pc = "idle" /\ rb_last.n >= 1) => rb_last.count = rb_last.committed

\* C9: after a Publications rebuild whose flushes all succeeded, the
\* institution's Publication rows are exactly the rows of the discovered
\* persons whose fetch gave a record, and the returned count and the
\* rows_count of the run log are the number of those rows.
C9_RowsOfFetchedProfiles ==
    (WorksRunDone /\ rb_last.flushesOk) =>
        LET expected == WorksOfPersons(rb_last.researchers \ rb_last.failed) IN
        /\ RowsOf(db_works, RebuiltRor) = expected
        /\ rb_last.count = BagCardinality(expected)
        /\ db_runs[Len(db_runs)].status = "success"
        /\ db_runs[Len(db_runs)].rows_count = BagCardinality(expected)

\* The same, for the rebuilds whose search found somebody.
C9_RowsOfFetchedProfiles_WhenFound ==
    (WorksRunDone /\ rb_last.flushesOk /\ rb_last.researchers # {}) =>
        LET expected == WorksOfPersons(rb_last.researchers \ rb_last.failed) IN
        /\ RowsOf(db_works, RebuiltRor) = expected
        /\ rb_last.count = BagCardinality(expected)
        /\ db_runs[Len(db_runs)].status = "success"
        /\ db_runs[Len(db_runs)].rows_count = BagCardinality(expected)

\* A rebuild with a failed fetch, where the three numbers of the claim differ.
C9_WhenFound_Witness ==
    /\ WorksRunDone /\ rb_last.flushesOk
    /\ rb_last.researchers = Persons
    /\ rb_last.failed = {"p2"}
    /\ rb_last.count = MaxItems

\* The step in which a builder raises and its handler deals with it.
BuilderRaises == rb_last'.n = rb_last.n + 1 /\ rb_last'.outcome = "raised"

\* The position in the run log of the row of the invocation that is ending.
RowOfInvocation == IF OpensRunFirst(rb_caller) THEN Len(db_runs) ELSE Len(db_runs) + 1

\* The row the claim expects once the builder has raised.
FailedRowWritten ==
    /\ RowOfInvocation <= Len(db_runs')
    /\ db_runs'[RowOfInvocation] =
          RunRow(rb_target, RebuiltRor, "failed", 0, PurgeError, TRUE)

\* C11: whenever a builder raises, the handler that called it leaves a run
\* row for that invocation with status 'failed', the exception text,
\* rows_count 0 and finished_at set; for every handler that keeps a run log.
C11_RaisedRunIsLoggedFailed ==
    [][BuilderRaises => FailedRowWritten]_vars

\* The same, for the handlers other than cache_full_build.
C11_ExceptFullBuild ==
    [][(BuilderRaises /\ rb_caller # "cache_full_build") => FailedRowWritten]_vars

\* No handler is at work on a run row of its own.
BetweenInvocations == rb_pc \in {"idle", "names"}

\* The rows of earlier invocations stay as they are: every row but the one
\* the handler at work has opened itself.
EarlierRowsKept ==
    \A i \in 1..Len(db_runs) :
        (i < Len(db_runs) \/ BetweenInvocations \/ ~OpensRunFirst(rb_caller)) =>
            i <= Len(db_runs') /\ db_runs'[i] = db_runs[i]

\* C31: every invocation of a rebuild entry point for an (institution,
\* target) appends exactly one run-log row and never modifies or deletes
\* the rows of earlier invocations, the invocations that end early for lack
\* of a token or for an invalid target included.
C31_OneRowPerInvocation ==
    [][/\ EarlierRowsKept
       /\ BetweenInvocations' => Len(db_runs') = rb_last'.n + rb_last'.refused]_vars

\* The same, for the invocations that reach their builder.
C31_ExceptRefused ==
    [][/\ EarlierRowsKept
       /\ BetweenInvocations' => Len(db_runs') = rb_last'.n]_vars

\* C12: after a Publications or Grants rebuild has returned normally, the
\* institution's rows of that entity are exactly the rows that rebuild
\* committed, also when it discovered nobody.
C12_RowsAreThoseOfLastRebuild ==
    rb_last.outcome = "returned" => rb_last.rows = rb_last.written

\* The same, for the rebuilds whose search found somebody.
C12_WhenFound ==
    (rb_last.outcome = "returned" /\ rb_last.researchers # {})
        => rb_last.rows = rb_last.written

\* C13: the rows of a batch whose flush failed are never submitted again
\* in a later flush of the same invocation.
C13_FailedBatchNeverResubmitted == ~rb_dropped.resubmitted

\* The Publications builder has committed its purge and has not returned.
WorksPurgeCommitted == rb_target = "works" /\ rb_pc \in {"fetch", "process"}

\* The rows a Publications rebuild generates from the records of the
\* persons it discovered.
RECURSIVE GeneratedWorks(_)
GeneratedWorks(persons) ==
    IF persons = {} THEN EmptyBag
    ELSE LET p == CHOOSE x \in persons : TRUE IN
         ExtractWorks(RebuiltRor, p, up_docs[p]) (+) GeneratedWorks(persons \ {p})

GeneratedStatus(persons) == SetToBag({StatusRow(RebuiltRor, p) : p \in persons})

\* How many AffiliationStatus rows the rebuilt institution has for a person.
StatusRowsFor(p) ==
    BagCardinality([r \in {x \in DOMAIN db_status : x.ror = RebuiltRor /\ x.orcid = p}
                      |-> db_status[r]])

\* C37: after a Publications rebuild that completed with every flush
\* succeeding there is exactly one AffiliationStatus row for each person of
\* the institution whose record was fetched, also one without publications,
\* none for a person whose fetch failed, and never two for one person.
C37_OneStatusRowPerFetchedPerson ==
    (WorksRunDone /\ rb_last.flushesOk) =>
        LET fetched == ProfilesMap(rb_last.researchers, rb_last.failed, rb_last.started) IN
        \A p \in Persons :
           /\ p \in fetched => StatusRowsFor(p) = 1
           /\ p \in rb_last.researchers \ fetched => StatusRowsFor(p) = 0
           /\ StatusRowsFor(p) <= 1

\* A second rebuild has fetched a person without publications and failed to
\* fetch the other, who had a row after the first.
C37_Witness ==
    /\ WorksRunDone /\ rb_last.flushesOk
    /\ rb_last.n = 2
    /\ rb_last.researchers = Persons
    /\ rb_last.failed = {"p2"}
    /\ rb_last.started
    /\ up_docs["p1"].works = 0
    /\ StatusRowsFor("p1") = 1
    /\ StatusRowsFor("p2") = 0

\* C21: in every state of a Publications rebuild after its purge has
\* committed, the institution's Publication and AffiliationStatus rows are
\* among the rows the rebuild in progress generates (each at most once):
\* no row of the previous generation is left, whatever the point at which
\* the rebuild is interrupted.
C21_OnlyNewRowsAfterPurge ==
    WorksPurgeCommitted =>
        /\ RowsOf(db_works, RebuiltRor) \sqsubseteq GeneratedWorks(rb_researchers)
        /\ RowsOf(db_status, RebuiltRor) \sqsubseteq GeneratedStatus(rb_researchers)
        /\ RowsOf(db_works, RebuiltRor) = rb_written

\* A second rebuild has purged the rows of the first and is half-way
\* through its repopulation.
C21_Witness ==
    /\ WorksPurgeCommitted
    /\ rb_last.n >= 1
    /\ rb_purged
    /\ rb_pc = "process"
    /\ rb_todo # {}
    /\ RowsOf(db_status, RebuiltRor) # EmptyBag

\* `after` is `before` without the rows of the rebuilt institution.
LostOnlyRebuiltRor(before, after) ==
    /\ RowsOf(after, RebuiltRor) = EmptyBag
    /\ RowsOf(after, OtherRor) = RowsOf(before, OtherRor)
    /\ DOMAIN after \subseteq DOMAIN before

\* C23: the purge of a Publications rebuild deletes the institution's
\* Publication and AffiliationStatus rows, and nothing else, in one commit
\* (both or, when the commit fails, neither); the purge of a Grants rebuild
\* deletes the institution's Grant rows and nothing else.
C23_PurgeDeletesExactlyOwnRows ==
    [][/\ (PurgeCommits /\ rb_target = "works") =>
             /\ LostOnlyRebuiltRor(db_works, db_works')
             /\ LostOnlyRebuiltRor(db_status, db_status')
             /\ db_fundings' = db_fundings
       /\ (PurgeCommits /\ rb_target = "fundings") =>
             /\ LostOnlyRebuiltRor(db_fundings, db_fundings')
             /\ db_works' = db_works
             /\ db_status' = db_status
       /\ PurgeFails => UNCHANGED <<db_works, db_status, db_fundings>>]_vars

\* A Publications purge has deleted rows of the institution while another
\* institution has rows in the three tables.
C23_Witness ==
    /\ rb_pc = "fetch"
    /\ rb_target = "works"
    /\ rb_purged
    /\ rb_last.rows # EmptyBag
    /\ RowsOf(db_works, RebuiltRor) = EmptyBag
    /\ RowsOf(db_status, RebuiltRor) = EmptyBag
    /\ RowsOf(db_fundings, OtherRor) # EmptyBag
    /\ RowsOf(db_works, OtherRor) # EmptyBag
    /\ RowsOf(db_status, OtherRor) # EmptyBag

\* C19: no step of a Publications rebuild, of a Grants rebuild or of a sync
\* of the names, for whichever institution and in whichever order, removes
\* a person from researcher_cache.
C19_NamesNeverShrink == [][NamedPersons(db_names) \subseteq NamedPersons(db_names')]_vars

\* A person has a row in researcher_cache and, after a later rebuild that
\* purged the institution's rows, none in the Publications and Grants caches.
C19_Witness ==
    /\ rb_pc = "idle"
    /\ rb_last.n = 2
    /\ rb_last.outcome = "returned"
    /\ rb_last.purged
    /\ "p1" \in NamedPersons(db_names)
    /\ "p1" \notin AllOrcids(RebuiltRor)

\* The rows of researcher_cache of the persons in `persons`.
NameRows(names, persons) ==
    [r \in {x \in DOMAIN names : x.orcid \in persons} |-> names[r]]

\* C36: the sync of the names fetches exactly the distinct persons of the
\* institution's Publication and Grant rows; after it researcher_cache
\* holds at most one row per person (a row that was there is updated in
\* place, a missing one inserted), the rows of persons outside that set
\* are unchanged, and a person whose fetch failed keeps the row it had.
C36_SyncUpsertsFetchedPersons ==
    [][LET sync == ns_last'
           untouched == Persons \ (IF sync.committed THEN sync.kept ELSE {})
       IN
       /\ sync.asked =
             {r.orcid : r \in {x \in DOMAIN db_works : x.ror = sync.ror}}
                \cup {r.orcid : r \in {x \in DOMAIN db_fundings : x.ror = sync.ror}}
       /\ sync.kept \subseteq sync.asked
       /\ \A r \in DOMAIN db_names' : db_names'[r] = 1
       /\ \A r, q \in DOMAIN db_names' : r.orcid = q.orcid => r = q
       /\ NameRows(db_names', untouched) = NameRows(db_names, untouched)
       /\ sync.committed =>
             \A k \in sync.kept : [orcid |-> k, name |-> "current"] \in DOMAIN db_names'
     ]_vars

\* A sync has refreshed the row of one person and inserted that of another,
\* beside the untouched row of a person whose fetch failed.
C36_Witness ==
    /\ ns_last.committed
    /\ ns_last.asked = Persons
    /\ ns_last.kept = {"p1"}
    /\ db_names = SetToBag({[orcid |-> "p1", name |-> "current"],
                            [orcid |-> "p2", name |-> "stale"]})

\* The step in which a builder returns although its batch of profile
\* fetches had no member URL or no token.
ReturnsUnconfigured ==
    /\ rb_last'.n = rb_last.n + 1
    /\ rb_last'.outcome = "returned"
    /\ ~rb_last'.started

\* C20: a rebuild whose profile fetches lack the member URL or a token
\* has deleted no Publication, Grant or AffiliationStatus row of the
\* institution, and its run row does not say 'success'.
C20_UnconfiguredRebuildPurgesNothing ==
    [][ReturnsUnconfigured =>
          /\ ~rb_last'.purged
          /\ RowOfInvocation <= Len(db_runs')
          /\ db_runs'[RowOfInvocation].status # "success"]_vars

\* A rebuild whose fetches had no member URL or no token has emptied the
\* institution's cache, and its run row says 'success' with 0 rows.
C20_CacheEmptiedAndSuccess ==
    /\ rb_pc = "idle"
    /\ rb_last.outcome = "returned"
    /\ ~rb_last.started
    /\ rb_last.purged
    /\ rb_last.rows = EmptyBag
    /\ db_runs[Len(db_runs)] = RunRow(rb_last.target, RebuiltRor, "success", 0, NoError, TRUE)

(***************************************************************************)
(* Claims about get_client_credentials_token                               *)
(***************************************************************************)

\* Every thread has entered the call, and entered it before any token
\* request was issued: the callers race for the first refresh.
AllCallConcurrently == \A t \in Threads : tk_epoch[t] = 0

\* Every token request answered so far was answered with a token.
EndpointAnswersOk ==
    \A i \in 1..Len(tk_posts) : tk_posts[i].outcome \in {"ok", "pending"}

\* One request in total, and whoever has returned holds its token.
OneRequestServesAll ==
    /\ Len(tk_posts) <= 1
    /\ \A t \in Threads : tk_pc[t] = "done" =>
           /\ Len(tk_posts) = 1
           /\ tk_posts[1].outcome = "ok"
           /\ tk_ret[t] = 1

\* The token of the first request has not reached its stored expiry
\* (t + L - 60): nothing is cached yet, or the first token is being stored,
\* or it is cached and time.time() < _TOKEN_EXPIRY.
FirstTokenUnexpired ==
    \/ tk_token = 0
    \/ /\ tk_token = 1
       /\ \/ \E t \in Threads : tk_pc[t] = "store_expiry"
          \/ tk_now < tk_expiry

\* C1 as stated: concurrent callers with nothing cached and a token endpoint
\* that answers successfully issue exactly one token request in total, and
\* every caller returns the token of that request.
C1_Original_OneRequestUnderRace ==
    (tk_config /\ AllCallConcurrently /\ EndpointAnswersOk) => OneRequestServesAll

\* C1 amended: the same, as long as the token obtained by that request has
\* not reached its stored expiry (request time + expires_in - 60 s) when the
\* other callers check the cache.
C1_OneRequestWhileTokenUnexpired ==
    (tk_config /\ AllCallConcurrently /\ EndpointAnswersOk /\ FirstTokenUnexpired)
        => OneRequestServesAll

C1_Witness ==
    /\ tk_config /\ AllCallConcurrently /\ EndpointAnswersOk /\ FirstTokenUnexpired
    /\ \A t \in Threads : tk_pc[t] = "done" /\ tk_ret[t] = 1
    /\ Len(tk_posts) = 1
    /\ tk_now < tk_expiry

\* Thread t leaves position pc in this step.
Leaves(t, pc) == tk_pc[t] = pc /\ tk_pc'[t] # pc

\* Thread t returns the cached value in this step, and has issued no token
\* request.
ReturnsCached(t) ==
    /\ tk_pc[t] \in {"fast_return", "lock"}
    /\ tk_pc'[t] = "done"
    /\ tk_ret'[t] = tk_token
    /\ tk_token # 0
    /\ tk_posts' = tk_posts

\* C32: a successful refresh stores the expiry t + L - 60, t the time of
\* storing and L the server's lifetime (6300 when omitted); a call returns
\* the cached value without a token request exactly when its check finds a
\* value cached and the time strictly below the stored expiry (on the fast
\* path and again under the lock), so a call whose check finds the time at
\* or after the stored expiry does not return the cached token.
C32_ExpiryAndCacheUse ==
    [][\A t \in Threads :
         /\ Leaves(t, "store_expiry") =>
               LET L == tk_posts[Len(tk_posts)].lifetime IN
               /\ tk_expiry' = tk_now + (IF L = Omitted THEN DefaultLifetime ELSE L)
                                  - SafetyWindow
               /\ tk_token' = Len(tk_posts) /\ tk_ret'[t] = Len(tk_posts)
         /\ Leaves(t, "fast_token") => (tk_token # 0 <=> tk_pc'[t] = "fast_expiry")
         /\ Leaves(t, "fast_expiry") => (tk_now < tk_expiry <=> tk_pc'[t] = "fast_return")
         /\ Leaves(t, "fast_return") => ReturnsCached(t)
         /\ Leaves(t, "lock") => ((tk_token # 0 /\ tk_now < tk_expiry) <=> ReturnsCached(t))
         /\ (Leaves(t, tk_pc[t]) /\ tk_pc'[t] = "done" /\ tk_ret'[t] # 0) =>
               (Leaves(t, "store_expiry") \/ ReturnsCached(t))]_vars

\* A thread has returned the token another thread's request obtained, after
\* the clock advanced, the server having omitted the lifetime.
C32_Witness ==
    /\ Len(tk_posts) = 1
    /\ tk_posts[1].by = 2
    /\ tk_posts[1].lifetime = Omitted
    /\ tk_now = TickSec
    /\ tk_expiry \in {DefaultLifetime - SafetyWindow, DefaultLifetime - SafetyWindow + TickSec}
    /\ tk_epoch[1] = 1
    /\ tk_pc[1] = "done"
    /\ tk_ret[1] = 1

\* The refresh of thread t fails in this step: the endpoint's answer is an
\* error or carries no token, or the configuration is incomplete.
RefreshFails(t) ==
    \/ /\ Leaves(t, "await")
       /\ tk_posts'[Len(tk_posts')].outcome \in {"error", "no_token"}
    \/ /\ Leaves(t, "lock")
       /\ ~TokenValid(tk_token, tk_expiry, tk_now)
       /\ ~tk_config

\* C38: when a token refresh fails, get_client_credentials_token returns no
\* token, the lock is free afterwards and the cached (value, expiry) slot
\* is as it was; the cached value is always the token of a successful
\* answer; and a call that finds no valid token cached under the lock,
\* with the configuration complete, issues a fresh token request.
C38_FailedRefreshLeavesSlot ==
    [][\A t \in Threads :
         /\ RefreshFails(t) =>
               /\ tk_pc'[t] = "done"
               /\ tk_ret'[t] = 0
               /\ tk_lock' = 0
               /\ <<tk_token, tk_expiry>>' = <<tk_token, tk_expiry>>
         /\ tk_token' # 0 => tk_posts'[tk_token'].outcome = "ok"
         /\ (Leaves(t, "lock") /\ ~TokenValid(tk_token, tk_expiry, tk_now) /\ tk_config) =>
               /\ Len(tk_posts') = Len(tk_posts) + 1
               /\ tk_posts'[Len(tk_posts')].by = t]_vars

\* A refresh has failed while an expired token was cached, and the token is
\* still there.
C38_Witness ==
    /\ Len(tk_posts) = 2
    /\ tk_posts[1].outcome = "ok"
    /\ tk_posts[2].outcome \in {"error", "no_token"}
    /\ tk_token = 1
    /\ tk_lock = 0
    /\ tk_ret[tk_posts[2].by] = 0
    /\ tk_pc[tk_posts[2].by] = "done"

(***************************************************************************)
(* Claims about list_orcids_for_institution                                *)
(***************************************************************************)

\* C6: whatever the pages and their overlap, the list returned by
\* list_orcids_for_institution holds each person identifier at most once and
\* holds every non-empty identifier that appeared on a page it fetched
\* successfully.
C6_UniqueAndComplete ==
    lo_pc = "done" =>
        /\ \A i, j \in 1..Len(lo_ret) :
              i # j => /\ Strip(lo_ret[i].id) # Strip(lo_ret[j].id)
                       /\ lo_ret[i].id # lo_ret[j].id
        /\ \A i \in 1..Len(lo_ret) : Strip(lo_ret[i].id) # ""
        /\ \A k \in lo_seen : \E i \in 1..Len(lo_ret) : Strip(lo_ret[i].id) = k
        /\ \A i \in 1..Len(lo_ret) : Strip(lo_ret[i].id) \in lo_seen

C6_Witness ==
    /\ lo_pc = "done"
    /\ Len(lo_requests) >= 2
    /\ lo_overlap
    /\ Cardinality(lo_seen) = 2
    /\ Len(lo_ret) = 2

\* C26: the page requests of the search have the offsets 0, rows,
\* 2*rows, ... in this order, and a page with fewer than rows records
\* (an empty one included) is the last one requested.
C26_OffsetsAscendUntilShortPage ==
    /\ Len(lo_pages) = Len(lo_requests)
    /\ \A i \in DOMAIN lo_requests : lo_requests[i] = (i - 1) * PageRows
    /\ \A i \in DOMAIN lo_pages :
          lo_pages[i] = "short" => (i = Len(lo_pages) /\ lo_pc = "done")
    /\ (lo_pc = "page" /\ lo_pages # <<>>) => lo_pages[Len(lo_pages)] = "full"

C26_Witness ==
    /\ lo_pc = "done"
    /\ lo_requests = <<0, PageRows>>
    /\ lo_pages = <<"full", "short">>
    /\ Len(lo_ret) = 2

\* The kinds of page that are failures of the request.
FailedPages == {"failed", "decode_error"}

\* C27: when a page request fails (no response, a non-200 response, or a
\* body that cannot be decoded), it is the last request of the search,
\* and the search returns the deduplicated records of the pages before it.
C27_FailedPageEndsSearch ==
    \A i \in DOMAIN lo_pages :
        lo_pages[i] \in FailedPages =>
            /\ i = Len(lo_pages)
            /\ lo_pc = "done"
            /\ {Strip(lo_ret[k].id) : k \in 1..Len(lo_ret)} = lo_seen
            /\ Len(lo_ret) = Cardinality(lo_seen)

C27_Witness ==
    /\ lo_pc = "done"
    /\ lo_pages = <<"full", "decode_error">>
    /\ Len(lo_ret) = 2

\* The call was made with neither identifier and has returned.
ReturnedWithoutIdentifier == lo_pc = "done" /\ ~lo_args.ror /\ ~lo_args.grid

\* C28: called with neither identifier, list_orcids_for_institution
\* returns the empty list without a page request and without a token
\* request, the credential cache being left as it was.
C28_NoIdentifierNoRequest ==
    ReturnedWithoutIdentifier =>
        /\ lo_ret = <<>>
        /\ lo_requests = <<>>
        /\ lo_tokenPosts = 0
        /\ lo_slot # "refreshed"

\* What holds of such a call: the empty list and no page request.
C28_NoPageRequest ==
    ReturnedWithoutIdentifier => (lo_ret = <<>> /\ lo_requests = <<>>)

\* The step is one iteration of the pagination loop.
PageTurned == lo_pc = "page" /\ Len(lo_pages') = Len(lo_pages) + 1

\* C39: the pagination loop ends for every upstream whose result set is
\* finite (one that answers a bounded number of full pages): it ends at the
\* first page that is short, empty or failed. Nothing else ends it: after
\* a full page the next offset is requested, however many pages have been
\* requested before, so it runs as long as the upstream answers full pages.
C39_EndsAtFirstPageNotFull ==
    /\ (lo_pc = "page") ~> (lo_pc = "done")
    /\ [][PageTurned =>
            IF lo_pages'[Len(lo_pages')] = "full"
              THEN lo_pc' = "page" /\ lo_start' = lo_start + PageRows
              ELSE lo_pc' = "done"]_vars

\* The loop has ended at a short page after as many full pages as the
\* upstream has.
C39_Witness ==
    /\ lo_pc = "done"
    /\ Len(lo_pages) = MaxPages + 1
    /\ \A i \in 1..MaxPages : lo_pages[i] = "full"
    /\ lo_pages[MaxPages + 1] = "short"

(***************************************************************************)
(* Claims about _extract_status_from_profile                               *)
(***************************************************************************)

\* The seven sections the claim names.
SevenSections ==
    {"employments", "educations", "qualifications", "invited-positions",
     "distinctions", "memberships", "services"}

\* The source client-id paths a summary carries.
ClientPathsOf(summary) ==
    { summary[i].source.cid.path :
        i \in { j \in 1..Len(summary) :
                  /\ summary[j].hasSource
                  /\ summary[j].source # Null
                  /\ summary[j].source.cid # Null } }

\* Some summary of some group of some of the seven sections carries a
\* client-id path that is one of the trusted ids.
HasTrustedSummary(profile, trusted) ==
    /\ profile.activities_summary # Null
    /\ \E sec \in SevenSections :
          LET sd == profile.activities_summary[sec] IN
          /\ sd # Null
          /\ \E g \in 1..Len(sd.groups) :
                \E k \in 1..Len(sd.groups[g].summaries) :
                   \E p \in ClientPathsOf(sd.groups[g].summaries[k]) :
                      p \in {cl_trusted[i] : i \in 1..Len(cl_trusted)}

\* C10: the classifier returns managed = true exactly when at least one
\* summary in at least one of the seven sections has a source client-id path
\* in trustedCredentialIds; client ids all outside the trusted set, or an
\* empty activities object, give managed = false.
C10_ManagedIffTrustedSource ==
    cl_pc = "done" => (cl_managed <=> HasTrustedSummary(cl_profile, cl_trusted))

\* Managed through the second summary of the second group of the last section.
C10_Witness ==
    /\ cl_pc = "done"
    /\ cl_managed
    /\ cl_trusted = <<"sys", "am">>
    /\ cl_profile.activities_summary # Null
    /\ cl_profile.activities_summary["employments"] =
          [groups |-> <<[summaries |-> << <<Item(Null)>> >>]>>]
    /\ cl_profile.activities_summary["services"] # Null
    /\ Len(cl_profile.activities_summary["services"].groups) = 2
    /\ cl_profile.activities_summary["services"].groups[2].summaries =
          << <<Item(SourceNoClient)>>, <<PlainDict, Item(SourceWith("am"))>> >>
    /\ ~ScanGroups(<<cl_profile.activities_summary["services"].groups[1]>>, 1, cl_trusted)

\* Not managed although the same client id is present: it is not trusted.
C10_WitnessUntrusted ==
    /\ cl_pc = "done"
    /\ ~cl_managed
    /\ cl_trusted = <<"sys">>
    /\ cl_profile.activities_summary # Null
    /\ cl_profile.activities_summary["employments"] # Null
    /\ cl_profile.activities_summary["employments"].groups =
          <<[summaries |-> << <<PlainDict, Item(SourceWith("am"))>> >>]>>

\* Some summary of the profile that is there (null neither itself nor on
\* the way to it) names a trusted client.
TrustedAmongPresent(profile, trusted) ==
    \E sec \in ActivityKeys :
        LET sd == profile.activities_summary[sec] IN
        /\ sd # Null
        /\ ~sd.groups.isNull
        /\ \E g \in 1..Len(sd.groups.items) :
              LET grp == sd.groups.items[g] IN
              /\ grp # Null
              /\ ~grp.summaries.isNull
              /\ \E k \in 1..Len(grp.summaries.items) :
                    /\ ~grp.summaries.items[k].isNull
                    /\ SummaryManaged(grp.summaries.items[k].items, trusted)

\* The profile has an explicit null where the classifier iterates or calls
\* a method: a list of groups, a group, a list of summaries or a summary.
HasNullCollection(profile) ==
    \E sec \in ActivityKeys :
        LET sd == profile.activities_summary[sec] IN
        /\ sd # Null
        /\ \/ sd.groups.isNull
           \/ \E g \in 1..Len(sd.groups.items) :
                 LET grp == sd.groups.items[g] IN
                 \/ grp = Null
                 \/ grp.summaries.isNull
                 \/ \E k \in 1..Len(grp.summaries.items) : grp.summaries.items[k].isNull

\* C35: the classifier never raises on an incomplete profile: a section,
\* list of groups, list of summaries, summary, source or client-id object
\* that is absent or null counts as no match for that part, and the
\* remaining parts are still classified.
C35_NeverRaisesOnIncomplete ==
    /\ cl_pc # "raised"
    /\ cl_pc = "done" => (cl_managed <=> TrustedAmongPresent(cl_profile, cl_trusted))

\* The same, for the profiles in which no list of groups, group, list of
\* summaries or summary is an explicit null.
C35_WithoutNullCollections ==
    ~HasNullCollection(cl_profile) =>
        /\ cl_pc # "raised"
        /\ cl_pc = "done" => (cl_managed <=> TrustedAmongPresent(cl_profile, cl_trusted))

(***************************************************************************)
(* Claims about safe_get                                                   *)
(***************************************************************************)

\* An outcome after which safe_get goes on to the next attempt.
Retryable(o) == o \notin {200, 404, 401, 403}

\* The upstream answers 200 to request k after k-1 retryable answers.
FirstOkAt(k) ==
    /\ k <= sg_retries
    /\ \A i \in 1..(k - 1) : Retryable(sg_script[i])
    /\ sg_script[k] = 200

\* C2: with maxRetries = N, when attempts 1..k-1 get retryable answers and
\* attempt k <= N gets 200, safe_get issues exactly k requests and returns
\* that 200 response; [429, 429, 200] gives two retries, then the 200.
C2_RetriesUntil200 ==
    \A k \in 1..Len(sg_script) :
        FirstOkAt(k) =>
            /\ Len(sg_log) <= k
            /\ sg_pc = "done" => /\ Len(sg_log) = k
                                 /\ sg_log = SubSeq(sg_script, 1, k)
                                 /\ sg_ret = RespRet(k, 200)

C2_Witness ==
    /\ sg_pc = "done"
    /\ sg_log = <<429, 429, 200>>
    /\ sg_ret = RespRet(3, 200)
    /\ Len(sg_sleeps) = 2

\* C3: an attempt that receives 404 makes safe_get return that response at
\* once, on whatever attempt: no sleep for it and no request after it.
C3_NotFoundReturnsAtOnce ==
    \A i \in 1..Len(sg_log) :
        sg_log[i] = 404 =>
            /\ sg_pc = "done"
            /\ Len(sg_log) = i
            /\ sg_ret = RespRet(i, 404)
            /\ \A j \in 1..Len(sg_sleeps) : sg_sleeps[j].attempt # i

C3_Witness ==
    /\ sg_pc = "done"
    /\ sg_log = <<429, 404>>
    /\ sg_retries = 3
    /\ sg_ret = RespRet(2, 404)

\* C4: an attempt that receives 401 or 403 makes safe_get return null at
\* once, on whatever attempt and however many retries remain: no sleep for
\* it and no request after it.
C4_AuthErrorReturnsNullAtOnce ==
    \A i \in 1..Len(sg_log) :
        sg_log[i] \in {401, 403} =>
            /\ sg_pc = "done"
            /\ Len(sg_log) = i
            /\ sg_ret = NullRet
            /\ \A j \in 1..Len(sg_sleeps) : sg_sleeps[j].attempt # i

C4_Witness ==
    /\ sg_pc = "done"
    /\ sg_log = <<500, 403>>
    /\ sg_retries = 3
    /\ sg_ret = NullRet

\* C5: whatever the upstream answers, safe_get issues at most maxRetries
\* requests, has returned once maxRetries requests were issued, and returns
\* null when none of its attempts produced a 200 or a 404.
C5_BoundedAttemptsThenNull ==
    /\ Len(sg_log) <= sg_retries
    /\ sg_pc = "loop" => Len(sg_log) < sg_retries
    /\ sg_pc = "done" =>
          ((\A i \in 1..Len(sg_log) : sg_log[i] \notin {200, 404}) => sg_ret = NullRet)

C5_Witness ==
    /\ sg_pc = "done"
    /\ sg_retries = 3
    /\ sg_log = <<429, NetErr, 500>>
    /\ sg_ret = NullRet

\* The sleeps made on attempt i.
SleepsOf(i) == {j \in 1..Len(sg_sleeps) : sg_sleeps[j].attempt = i}

\* The sleep the claim gives for outcome o on attempt i, in milliseconds.
BackoffMs(o, i) == IF o = 429 THEN 2000 * i ELSE 500 * i

\* The sleeps are those of the back-off: one per retryable outcome, of the
\* length the outcome calls for, none for any other outcome.
SleepsAreBackoff(last) ==
    \A i \in 1..Len(sg_log) :
        IF Retryable(sg_log[i]) /\ i < last
          THEN \E j \in SleepsOf(i) :
                  /\ SleepsOf(i) = {j}
                  /\ sg_sleeps[j].ms = BackoffMs(sg_log[i], i)
          ELSE Retryable(sg_log[i]) \/ SleepsOf(i) = {}

\* C33: in safe_get a 429 on attempt n causes one sleep of 2*n seconds, any
\* other retryable outcome one sleep of 0.5*n seconds, never both on one
\* attempt, and every sleep is followed by a further request: no sleep is
\* made after the final attempt.
C33_EverySleepBeforeARetry ==
    /\ SleepsAreBackoff(sg_retries)
    /\ \A j \in 1..Len(sg_sleeps) :
          /\ Cardinality(SleepsOf(sg_sleeps[j].attempt)) = 1
          /\ sg_sleeps[j].attempt < sg_retries

\* The same, but for a 429 on the final attempt, which is slept on too.
C33_ExceptFinal429 ==
    /\ SleepsAreBackoff(sg_retries)
    /\ \A j \in 1..Len(sg_sleeps) :
          /\ Cardinality(SleepsOf(sg_sleeps[j].attempt)) = 1
          /\ \/ sg_sleeps[j].attempt < sg_retries
             \/ /\ sg_log[sg_sleeps[j].attempt] = 429
                /\ sg_sleeps[j].ms = BackoffMs(429, sg_sleeps[j].attempt)

=============================================================================
